---- MODULE Spec2Model ----
(***************************************************************************)
(* HonorHub: the certificate orchestrator (routes/certificates.js) with    *)
(* its two collaborators, the PDF renderer and the email dispatcher, seen  *)
(* through the state they leave behind: the certificates table, the PDF    *)
(* files on disk, and the response sent to the caller.                     *)
(***************************************************************************)
EXTENDS Integers, Sequences, FiniteSets, TLC

\* ---------------------------------------------------------------- bounds
\* rows the SERIAL primary key may hand out before issuing stops
MaxCerts == 2
\* values of CURRENT_TIMESTAMP
MaxClock == 2
\* longest certData array of a bulk request
MaxBulk == 2

\* rows the SERIAL primary key of templates may hand out
MaxTemplates == 2

\* pieces of the longest subject template an admin stores
MaxLen == 2

\* characters of the longest text handed to wrapText
MaxChars == 6
\* the widest maxWidth handed to wrapText, in units of the narrowest glyph
MaxWidth == 3
\* characters of the longest tiers.color
MaxHex == 7

\* ------------------------------------------------------- read-only tables
\* SQL NULL of certificates.sent_at
NULL == 0

\* req.user as authenticateToken provides it: id -> role
users == (1 :> [role |-> "admin"]) @@ (2 :> [role |-> "user"])

\* the rows of the employees table: id -> row
employees == (1 :> [name |-> "Jane Doe", email |-> "jane@example.com"])

\* seedDefaultData: the first default tier and the default template
SeedTiers == (1 :> [name |-> "Top Performer", rank |-> 1])
SeedTemplates == (1 :> [name |-> "Classic Gold", is_default |-> 1])

\* ids a request may name: 2 names no row of any of the three tables
RefIds == {1, 2}

\* what the environment does to one issuance: nothing, generateCertificatePDF
\* throws, the INSERT throws, sendCertificateEmail rejects
Faults == {"none", "render", "insert", "email"}

VARIABLES
    certificates,   \* the certificates table: primary key -> row
    nextId,         \* the SERIAL sequence of certificates.id
    files,          \* uploads/certificates: the certificate ids that have a PDF
    now,            \* CURRENT_TIMESTAMP
    bulk,           \* the POST /bulk request in flight
    resp,           \* the response to the request served last
    tiers,          \* the tiers table: primary key -> row
    templates,      \* the templates table: primary key -> row
    nextTemplateId, \* the SERIAL sequence of templates.id
    reqs,           \* the tiers and templates requests in flight: connection -> request
    settings,       \* the settings table: key -> value
    mail,           \* what the email dispatcher did with the message handed to it last
    printed,        \* the signature block of the PDF the renderer drew last
    batch,          \* the POST /bulk request served await by await, item by item
    call,           \* the call of a renderer helper under way: its arguments, then its result
    accounts        \* the users table: primary key -> row

\* the tables the certificate routes only read
catalog == <<tiers, templates, nextTemplateId>>

\* what the bulk route leaves alone
aside == <<call, accounts>>

\* what the settings routes, the dispatcher and the renderer leave alone
apart == <<batch, aside>>

\* what neither the certificate routes nor the tiers and templates routes touch
elsewhere == <<settings, mail, printed, apart>>

\* what the certificate routes leave alone
frame == <<catalog, reqs, elsewhere>>

vars == <<certificates, nextId, files, now, bulk, resp, tiers, templates, nextTemplateId,
          reqs, settings, mail, printed, batch, call, accounts>>

\* ---------------------------------------------------------------- helpers
\* the certificate ids that issuing requests in flight have drawn
InFlightIds ==
    {reqs[k].certificateId : k \in {c \in DOMAIN reqs : reqs[c].op = "issue"}} \ {0}

\* mutant of uuidv4: an id some request in flight has drawn may be drawn again
uuidv4FilesOnly == CHOOSE u \in 1..(Cardinality(files) + 1) : u \notin files

\* uuidv4(): a certificate id that was not drawn before: no file and no row
\* carries it and no request in flight holds it
uuidv4 ==
    CHOOSE u \in 1..(Cardinality(files \cup InFlightIds) + 1) : u \notin files \cup InFlightIds

\* the path generateCertificatePDF returns for a certificate id
PdfPath(certificateId) == <<"/uploads/certificates/", certificateId, ".pdf">>

\* the row INSERT INTO certificates writes: email_sent and sent_at take their defaults
NewRow(certificateId, employee_id, tier_id, template_id, sent_by) ==
    [certificate_id |-> certificateId,
     employee_id |-> employee_id,
     tier_id |-> tier_id,
     template_id |-> template_id,
     sent_by |-> sent_by,
     pdf_path |-> PdfPath(certificateId),
     email_sent |-> 0,
     sent_at |-> NULL]

\* mutant of MarkSent: the UPDATE sets the flag and leaves sent_at
MarkSentFlagOnly(table, id) ==
    [r \in DOMAIN table |->
        IF r = id THEN [table[r] EXCEPT !.email_sent = 1] ELSE table[r]]

\* UPDATE certificates SET email_sent = 1, sent_at = CURRENT_TIMESTAMP WHERE id = $1
MarkSent(table, id) ==
    [r \in DOMAIN table |->
        IF r = id THEN [table[r] EXCEPT !.email_sent = 1, !.sent_at = now]
        ELSE table[r]]

\* INSERT ... RETURNING id
InsertRow(table, id, row) ==
    [r \in DOMAIN table \cup {id} |-> IF r = id THEN row ELSE table[r]]

\* DELETE FROM certificates WHERE id = $1
DeleteRow(table, id) == [r \in DOMAIN table \ {id} |-> table[r]]

\* the references of c that have no row in the given tiers and templates tables
BadRefsIn(c, tierTable, templateTable) ==
    {k \in {"employee", "tier", "template"} :
        \/ k = "employee" /\ c.employee_id \notin DOMAIN employees
        \/ k = "tier" /\ c.tier_id \notin DOMAIN tierTable
        \/ k = "template" /\ c.template_id \notin DOMAIN templateTable}

\* the references a request names that do not resolve
BadRefs(c) == BadRefsIn(c, tiers, templates)

\* issuing stops when the model's bound on rows and files is reached
CanIssue == nextId <= MaxCerts /\ Cardinality(files) < MaxCerts

Response(op, status, error, id, calls, data) ==
    [op |-> op, status |-> status, error |-> error, id |-> id,
     calls |-> calls, data |-> data]

NoBulk ==
    [pc |-> "idle", user |-> 1, certData |-> <<>>, send_email |-> FALSE, i |-> 1,
     results |-> [success |-> 0, failed |-> 0, errors |-> <<>>, certificates |-> <<>>],
     calls |-> <<>>, faults |-> <<>>]

InitCertificates ==
    /\ certificates = <<>>
    /\ nextId = 1
    /\ files = {}
    /\ now = 1
    /\ bulk = NoBulk
    /\ resp = Response("none", 0, "", 0, <<>>, {})

InitCatalog ==
    /\ tiers = SeedTiers
    /\ templates = SeedTemplates
    /\ nextTemplateId = 2

\* the connections that carry tiers and templates requests at the same time
Conns == {1, 2}

\* a connection with no request in flight
NoReq == [op |-> "idle", id |-> 0, name |-> "", is_default |-> "undefined"]

InitReqs == reqs = [k \in Conns |-> NoReq]

\* a text is a sequence of pieces: a placeholder token, the replacement
\* pattern "$&", or a run of other characters; '' is the empty sequence
Tokens ==
    <<"{tier}", "{employee_name}", "{custom_message}", "{sender_name}", "{company_name}">>

\* seedDefaultData: the settings the mail and the signature read
SeedSettings ==
    [company_name |-> <<"Integrant">>,
     global_signature_name |-> <<"Yousef Awad">>,
     global_signature_title |-> <<"CEO">>,
     smtp_host |-> <<>>,
     smtp_user |-> <<>>,
     smtp_from_name |-> <<"HonorHub">>,
     smtp_from_email |-> <<>>,
     email_subject_template |->
         <<"Congratulations! You have been recognized as ", "{tier}">>,
     email_body_template |->
         <<"Dear ", "{employee_name}", ",\n\nCongratulations! You have been recognized as ",
           "{tier}", ".\n\n", "{custom_message}", "\n\nBest regards,\n", "{sender_name}">>]

\* no message was handed to the dispatcher yet
NoMail ==
    [to |-> "", replacements |-> <<>>, subject |-> <<>>, text |-> <<>>, from |-> <<>>,
     via |-> "none", handed |-> <<>>, error |-> ""]

InitMail ==
    /\ settings = SeedSettings
    /\ mail = NoMail

\* no PDF was drawn yet
NoSignature ==
    [sender |-> <<>>, signatureName |-> <<>>, signatureTitle |-> <<>>,
     sigName |-> <<>>, sigTitle |-> <<>>]

InitPrinted == printed = NoSignature

\* no bulk request is being served
NoBatch ==
    [pc |-> "idle", certData |-> <<>>, send_email |-> FALSE, signatureName |-> <<>>,
     signatureTitle |-> <<>>, items |-> <<>>,
     results |-> [success |-> 0, failed |-> 0, errors |-> <<>>, certificates |-> <<>>]]

\* no helper of the renderer has been called
NoCall == [fn |-> "none", done |-> FALSE]

InitApart == batch = NoBatch /\ call = NoCall /\ accounts = <<>>

Init ==
    InitCertificates /\ InitCatalog /\ InitReqs /\ InitMail /\ InitPrinted /\ InitApart

\* ------------------------------------------------------ POST /certificates
\* mutant of Issue: the dispatch is not wrapped in its own try/catch, so a
\* failed send leaves the try block like any other exception
IssueEmailThrows(u, e, t, tp, send_email, fault) ==
    LET certificateId == uuidv4
        row == NewRow(certificateId, e, t, tp, u)
        inserted == InsertRow(certificates, nextId, row)
    IN  IF fault = "render"
        THEN [ok |-> FALSE, calls |-> <<"render">>, files |-> files,
              table |-> certificates, nextId |-> nextId, id |-> 0]
        ELSE IF fault = "insert"
        THEN [ok |-> FALSE, calls |-> <<"render", "insert">>,
              files |-> files \cup {certificateId},
              table |-> certificates, nextId |-> nextId, id |-> 0]
        ELSE IF ~send_email
        THEN [ok |-> TRUE, calls |-> <<"render", "insert">>,
              files |-> files \cup {certificateId},
              table |-> inserted, nextId |-> nextId + 1, id |-> nextId]
        ELSE IF fault = "email"
        THEN [ok |-> FALSE, calls |-> <<"render", "insert", "dispatch">>,
              files |-> files \cup {certificateId},
              table |-> inserted, nextId |-> nextId + 1, id |-> 0]
        ELSE [ok |-> TRUE, calls |-> <<"render", "insert", "dispatch", "update">>,
              files |-> files \cup {certificateId},
              table |-> MarkSent(inserted, nextId), nextId |-> nextId + 1, id |-> nextId]

\* mutant of Issue: the row is inserted before the PDF is rendered, so a
\* render that throws leaves the row behind
IssueInsertFirst(u, e, t, tp, send_email, fault) ==
    LET certificateId == uuidv4
        row == NewRow(certificateId, e, t, tp, u)
        inserted == InsertRow(certificates, nextId, row)
    IN  IF fault = "insert"
        THEN [ok |-> FALSE, calls |-> <<"insert">>, files |-> files,
              table |-> certificates, nextId |-> nextId, id |-> 0]
        ELSE IF fault = "render"
        THEN [ok |-> FALSE, calls |-> <<"insert", "render">>, files |-> files,
              table |-> inserted, nextId |-> nextId + 1, id |-> 0]
        ELSE IF ~send_email
        THEN [ok |-> TRUE, calls |-> <<"insert", "render">>,
              files |-> files \cup {certificateId},
              table |-> inserted, nextId |-> nextId + 1, id |-> nextId]
        ELSE IF fault = "email"
        THEN [ok |-> TRUE, calls |-> <<"insert", "render", "dispatch">>,
              files |-> files \cup {certificateId},
              table |-> inserted, nextId |-> nextId + 1, id |-> nextId]
        ELSE [ok |-> TRUE, calls |-> <<"insert", "render", "dispatch", "update">>,
              files |-> files \cup {certificateId},
              table |-> MarkSent(inserted, nextId), nextId |-> nextId + 1, id |-> nextId]

\* What one issuance does once the references are resolved: uuid, render,
\* INSERT, and with send_email the dispatch and the UPDATE. ok is FALSE when an
\* exception leaves the try block; calls are the collaborators invoked, in order.
Issue(u, e, t, tp, send_email, fault) ==
    LET certificateId == uuidv4
        row == NewRow(certificateId, e, t, tp, u)
        inserted == InsertRow(certificates, nextId, row)
    IN  IF fault = "render"
        THEN [ok |-> FALSE, calls |-> <<"render">>, files |-> files,
              table |-> certificates, nextId |-> nextId, id |-> 0]
        ELSE IF fault = "insert"
        THEN [ok |-> FALSE, calls |-> <<"render", "insert">>,
              files |-> files \cup {certificateId},
              table |-> certificates, nextId |-> nextId, id |-> 0]
        ELSE IF ~send_email
        THEN [ok |-> TRUE, calls |-> <<"render", "insert">>,
              files |-> files \cup {certificateId},
              table |-> inserted, nextId |-> nextId + 1, id |-> nextId]
        ELSE IF fault = "email"
        THEN [ok |-> TRUE, calls |-> <<"render", "insert", "dispatch">>,
              files |-> files \cup {certificateId},
              table |-> inserted, nextId |-> nextId + 1, id |-> nextId]
        ELSE [ok |-> TRUE, calls |-> <<"render", "insert", "dispatch", "update">>,
              files |-> files \cup {certificateId},
              table |-> MarkSent(inserted, nextId), nextId |-> nextId + 1, id |-> nextId]

\* mutant of Create: the template lookup is not checked
CreateNoTemplateCheck(u, e, t, tp, send_email, fault) ==
    /\ UNCHANGED <<now, bulk>>
    /\ UNCHANGED frame
    /\ IF e \notin DOMAIN employees
       THEN /\ resp' = Response("create", 400, "Employee not found", 0, <<>>, {})
            /\ UNCHANGED <<certificates, nextId, files>>
       ELSE IF t \notin DOMAIN tiers
       THEN /\ resp' = Response("create", 400, "Tier not found", 0, <<>>, {})
            /\ UNCHANGED <<certificates, nextId, files>>
       ELSE LET out == Issue(u, e, t, tp, send_email, fault)
            IN  /\ fault \notin {"render"} => CanIssue
                /\ files' = out.files
                /\ certificates' = out.table
                /\ nextId' = out.nextId
                /\ resp' = IF out.ok
                           THEN Response("create", 201, "", out.id, out.calls,
                                         {out.table[out.id]})
                           ELSE Response("create", 500, "Failed to create certificate",
                                         0, out.calls, {})

\* the handler of POST /: the three lookups in order, then the issuance
Create(u, e, t, tp, send_email, fault) ==
    /\ UNCHANGED <<now, bulk>>
    /\ UNCHANGED frame
    /\ IF e \notin DOMAIN employees
       THEN /\ resp' = Response("create", 400, "Employee not found", 0, <<>>, {})
            /\ UNCHANGED <<certificates, nextId, files>>
       ELSE IF t \notin DOMAIN tiers
       THEN /\ resp' = Response("create", 400, "Tier not found", 0, <<>>, {})
            /\ UNCHANGED <<certificates, nextId, files>>
       ELSE IF tp \notin DOMAIN templates
       THEN /\ resp' = Response("create", 400, "Template not found", 0, <<>>, {})
            /\ UNCHANGED <<certificates, nextId, files>>
       ELSE LET out == Issue(u, e, t, tp, send_email, fault)
            IN  /\ fault \notin {"render"} => CanIssue
                /\ files' = out.files
                /\ certificates' = out.table
                /\ nextId' = out.nextId
                /\ resp' = IF out.ok
                           THEN Response("create", 201, "", out.id, out.calls,
                                         {out.table[out.id]})
                           ELSE Response("create", 500, "Failed to create certificate",
                                         0, out.calls, {})

\* ------------------------------------------- POST /certificates/:id/resend
\* mutant of Resend: the certificate is issued again, as a new row
ResendReissue(u, id, fault) ==
    /\ UNCHANGED <<files, now, bulk>>
    /\ UNCHANGED frame
    /\ IF id \notin DOMAIN certificates
       THEN /\ resp' = Response("resend", 404, "Certificate not found", id, <<>>, {})
            /\ UNCHANGED <<certificates, nextId>>
       ELSE IF fault = "email"
       THEN /\ resp' = Response("resend", 500, "Failed to send email", id,
                                <<"dispatch">>, {})
            /\ UNCHANGED <<certificates, nextId>>
       ELSE /\ nextId <= MaxCerts
            /\ certificates' = MarkSent(InsertRow(certificates, nextId, certificates[id]),
                                        nextId)
            /\ nextId' = nextId + 1
            /\ resp' = Response("resend", 200, "", id, <<"dispatch", "update">>, {})

\* mutant of Resend: the UPDATE is made before the dispatch
ResendUpdateFirst(u, id, fault) ==
    /\ UNCHANGED <<nextId, files, now, bulk>>
    /\ UNCHANGED frame
    /\ IF id \notin DOMAIN certificates
       THEN /\ resp' = Response("resend", 404, "Certificate not found", id, <<>>, {})
            /\ UNCHANGED certificates
       ELSE IF fault = "email"
       THEN /\ resp' = Response("resend", 500, "Failed to send email", id,
                                <<"update", "dispatch">>, {})
            /\ certificates' = MarkSent(certificates, id)
       ELSE /\ certificates' = MarkSent(certificates, id)
            /\ resp' = Response("resend", 200, "", id, <<"update", "dispatch">>, {})

\* the handler of POST /:id/resend: the row, the dispatch, the UPDATE
Resend(u, id, fault) ==
    /\ UNCHANGED <<nextId, files, now, bulk>>
    /\ UNCHANGED frame
    /\ IF id \notin DOMAIN certificates
       THEN /\ resp' = Response("resend", 404, "Certificate not found", id, <<>>, {})
            /\ UNCHANGED certificates
       ELSE IF fault = "email"
       THEN /\ resp' = Response("resend", 500, "Failed to send email", id,
                                <<"dispatch">>, {})
            /\ UNCHANGED certificates
       ELSE /\ certificates' = MarkSent(certificates, id)
            /\ resp' = Response("resend", 200, "", id, <<"dispatch", "update">>, {})

\* --------------------------------------------------- DELETE /certificates/:id
\* mutant of Delete: the requester is not checked
DeleteUnchecked(u, id) ==
    /\ UNCHANGED <<nextId, files, now, bulk>>
    /\ UNCHANGED frame
    /\ IF id \notin DOMAIN certificates
       THEN /\ resp' = Response("delete", 404, "Certificate not found", id, <<>>, {})
            /\ UNCHANGED certificates
       ELSE /\ certificates' = DeleteRow(certificates, id)
            /\ resp' = Response("delete", 200, "", id, <<"delete">>, {})

\* the handler of DELETE /:id: the row, the requester, the DELETE
Delete(u, id) ==
    /\ UNCHANGED <<nextId, files, now, bulk>>
    /\ UNCHANGED frame
    /\ IF id \notin DOMAIN certificates
       THEN /\ resp' = Response("delete", 404, "Certificate not found", id, <<>>, {})
            /\ UNCHANGED certificates
       ELSE IF users[u].role # "admin" /\ certificates[id].sent_by # u
       THEN /\ resp' = Response("delete", 403,
                                "Not authorized to delete this certificate", id, <<>>, {})
            /\ UNCHANGED certificates
       ELSE /\ certificates' = DeleteRow(certificates, id)
            /\ resp' = Response("delete", 200, "", id, <<"delete">>, {})

\* ------------------------------------------------- POST /certificates/bulk
\* one element of certData; the elements drawn have at most one reference
\* outside the seeded tables (the loop tests the three lookups in one condition)
BulkSpecs ==
    {c \in [employee_id : RefIds, tier_id : RefIds, template_id : RefIds] :
        Cardinality(BadRefsIn(c, SeedTiers, SeedTemplates)) <= 1}

\* error.message of what generateCertificatePDF or the INSERT throws
ErrorMessage(fault) == IF fault = "render" THEN "render failed" ELSE "insert failed"

\* mutant of ItemFailed: the error is pushed and failed is not incremented
ItemFailedUncounted(results, cert, error) ==
    [results EXCEPT !.errors = Append(@, [cert |-> cert, error |-> error])]

\* results.failed++; results.errors.push({ cert, error })
ItemFailed(results, cert, error) ==
    [results EXCEPT !.failed = @ + 1,
                    !.errors = Append(@, [cert |-> cert, error |-> error])]

\* results.success++; results.certificates.push({ id, employee_name })
ItemSucceeded(results, id, employee_name) ==
    [results EXCEPT !.success = @ + 1,
                    !.certificates = Append(@, [id |-> id, employee_name |-> employee_name])]

\* the request arrives: the array check, the settings reads, the empty results;
\* status 0 is a response not sent yet
BulkStart(u, certData, send_email) ==
    /\ bulk.pc = "idle"
    /\ UNCHANGED <<certificates, nextId, files, now>>
    /\ UNCHANGED frame
    /\ IF Len(certData) = 0
       THEN /\ resp' = Response("bulk", 400, "Invalid certificates data", 0, <<>>, {})
            /\ UNCHANGED bulk
       ELSE /\ bulk' = [NoBulk EXCEPT !.pc = "loop", !.user = u, !.certData = certData,
                                      !.send_email = send_email]
            /\ resp' = Response("bulk", 0, "", 0, <<>>, {})

\* one pass of the for-of loop body; fault is what the environment does to
\* this item's issuance, kept in bulk.faults
BulkItem(fault) ==
    /\ bulk.pc = "loop"
    /\ bulk.i <= Len(bulk.certData)
    /\ UNCHANGED <<now, resp>>
    /\ UNCHANGED frame
    /\ LET cert == bulk.certData[bulk.i]
           results == bulk.results
       IN  IF BadRefs(cert) # {}
           THEN /\ bulk' = [bulk EXCEPT
                        !.i = @ + 1,
                        !.calls = Append(@, <<>>),
                        !.faults = Append(@, fault),
                        !.results = ItemFailed(results, cert,
                            "Invalid employee, tier, or template reference")]
                /\ UNCHANGED <<certificates, nextId, files>>
           ELSE LET out == Issue(bulk.user, cert.employee_id, cert.tier_id,
                                 cert.template_id, bulk.send_email, fault)
                IN  /\ fault \notin {"render"} => CanIssue
                    /\ files' = out.files
                    /\ certificates' = out.table
                    /\ nextId' = out.nextId
                    /\ bulk' = [bulk EXCEPT
                        !.i = @ + 1,
                        !.calls = Append(@, out.calls),
                        !.faults = Append(@, fault),
                        !.results =
                            IF out.ok
                            THEN ItemSucceeded(results, out.id,
                                               employees[cert.employee_id].name)
                            ELSE ItemFailed(results, cert, ErrorMessage(fault))]

\* the loop is over: res.json({message, ...results}); the body sent is
\* bulk.results, which the finished request keeps
BulkRespond ==
    /\ bulk.pc = "loop"
    /\ bulk.i > Len(bulk.certData)
    /\ resp' = Response("bulk", 200, "", 0, <<>>, {})
    /\ bulk' = [bulk EXCEPT !.pc = "done"]
    /\ UNCHANGED <<certificates, nextId, files, now>>
    /\ UNCHANGED frame

\* the handler returns and its locals (certData, results) are dropped
BulkEnd ==
    /\ bulk.pc = "done"
    /\ bulk' = NoBulk
    /\ UNCHANGED <<certificates, nextId, files, now, resp>>
    /\ UNCHANGED frame

\* time passes
Tick ==
    /\ now < MaxClock
    /\ now' = now + 1
    /\ UNCHANGED <<certificates, nextId, files, bulk, resp>>
    /\ UNCHANGED frame

\* ------------------------------------------------------ /templates, /tiers
\* ids a templates request may name: the last one never has a row
TemplateIds == 1..(MaxTemplates + 1)

\* req.body.is_default: absent, falsy, truthy
IsDefaultArgs == {"undefined", "false", "true"}

\* req.body.name: absent or empty, or the name given
NameArgs == {"", "Classic Gold"}

\* UPDATE templates SET is_default = 0
ClearDefault(table) == [r \in DOMAIN table |-> [table[r] EXCEPT !.is_default = 0]]

\* UPDATE templates SET name = .., is_default = .. WHERE id = $n: the columns
\* the request gave, on the row of that id if there is one
UpdateTemplate(table, id, name, is_default) ==
    [r \in DOMAIN table |->
        IF r = id
        THEN [table[r] EXCEPT
                !.name = IF name # "" THEN name ELSE @,
                !.is_default = IF is_default = "undefined" THEN @
                               ELSE IF is_default = "true" THEN 1 ELSE 0]
        ELSE table[r]]

\* SELECT COUNT(*) FROM certificates WHERE <column> = $1, as count > 0; also
\* what REFERENCES tiers(id) / templates(id) makes a DELETE fail on
Referenced(column, id) == \E r \in DOMAIN certificates : certificates[r][column] = id

\* the POST /templates requests between their two statements
PostsInFlight == {k \in Conns : reqs[k].op = "templates.post"}

\* POST /templates up to its first statement: the validation, then with
\* is_default the UPDATE that clears the flag, without it the INSERT
TemplatesPost(k, name, is_default) ==
    /\ reqs[k].op = "idle"
    /\ UNCHANGED <<elsewhere, certificates, nextId, files, now, bulk, tiers>>
    /\ IF name = ""
       THEN /\ resp' = Response("templates.post", 400, "validation", 0, <<>>, {})
            /\ UNCHANGED <<templates, nextTemplateId, reqs>>
       ELSE /\ nextTemplateId + Cardinality(PostsInFlight) <= MaxTemplates
            /\ IF is_default = "true"
               THEN /\ templates' = ClearDefault(templates)
                    /\ reqs' = [reqs EXCEPT ![k] = [op |-> "templates.post", id |-> 0,
                                                    name |-> name, is_default |-> is_default]]
                    /\ UNCHANGED <<nextTemplateId, resp>>
               ELSE /\ templates' = InsertRow(templates, nextTemplateId,
                                              [name |-> name, is_default |-> 0])
                    /\ nextTemplateId' = nextTemplateId + 1
                    /\ resp' = Response("templates.post", 201, "", nextTemplateId, <<>>, {})
                    /\ UNCHANGED reqs

\* POST /templates with is_default after the clearing UPDATE: the INSERT and
\* the 201
TemplatesPostInsert(k) ==
    /\ reqs[k].op = "templates.post"
    /\ UNCHANGED <<elsewhere, certificates, nextId, files, now, bulk, tiers>>
    /\ templates' = InsertRow(templates, nextTemplateId,
                              [name |-> reqs[k].name, is_default |-> 1])
    /\ nextTemplateId' = nextTemplateId + 1
    /\ resp' = Response("templates.post", 201, "", nextTemplateId, <<>>, {})
    /\ reqs' = [reqs EXCEPT ![k] = NoReq]

\* the UPDATE ... WHERE id, the SELECT of the row and the answer of
\* PUT /templates/:id; JSON.parse(template.design_config) throws when the
\* SELECT found no row
TemplatesPutUpdate(id, name, is_default) ==
    /\ templates' = UpdateTemplate(templates, id, name, is_default)
    /\ resp' = IF id \in DOMAIN templates
               THEN Response("templates.put", 200, "", id, <<>>, {})
               ELSE Response("templates.put", 500, "Failed to update template", id, <<>>, {})

\* PUT /templates/:id up to its first statement: with is_default truthy the
\* UPDATE that clears the flag, otherwise the 400 or the UPDATE of the row
TemplatesPut(k, id, name, is_default) ==
    /\ reqs[k].op = "idle"
    /\ UNCHANGED <<elsewhere, certificates, nextId, files, now, bulk, tiers, nextTemplateId>>
    /\ IF is_default = "true"
       THEN /\ templates' = ClearDefault(templates)
            /\ reqs' = [reqs EXCEPT ![k] = [op |-> "templates.put", id |-> id,
                                            name |-> name, is_default |-> is_default]]
            /\ UNCHANGED resp
       ELSE IF is_default = "undefined" /\ name = ""
       THEN /\ resp' = Response("templates.put", 400, "No fields to update", id, <<>>, {})
            /\ UNCHANGED <<templates, reqs>>
       ELSE /\ TemplatesPutUpdate(id, name, is_default)
            /\ UNCHANGED reqs

\* PUT /templates/:id with is_default truthy after the clearing UPDATE
TemplatesPutSet(k) ==
    /\ reqs[k].op = "templates.put"
    /\ UNCHANGED <<elsewhere, certificates, nextId, files, now, bulk, tiers, nextTemplateId>>
    /\ TemplatesPutUpdate(reqs[k].id, reqs[k].name, reqs[k].is_default)
    /\ reqs' = [reqs EXCEPT ![k] = NoReq]

\* GET /templates: SELECT * FROM templates, answered as the list of the rows
TemplatesGet ==
    /\ resp' = Response("templates.get", 200, "", 0, <<>>,
                        {[id |-> r, name |-> templates[r].name,
                          is_default |-> templates[r].is_default] : r \in DOMAIN templates})
    /\ UNCHANGED <<elsewhere, certificates, nextId, files, now, bulk, catalog, reqs>>

\* mutant of TemplatesDelete: the certificates that use the template are not
\* counted
TemplatesDeleteUncounted(k, id) ==
    /\ reqs[k].op = "idle"
    /\ UNCHANGED <<elsewhere, certificates, nextId, files, now, bulk, tiers, templates, nextTemplateId>>
    /\ IF id \notin DOMAIN templates
       THEN /\ resp' = Response("templates.delete", 404, "Template not found", id, <<>>, {})
            /\ UNCHANGED reqs
       ELSE IF templates[id].is_default # 0
       THEN /\ resp' = Response("templates.delete", 400, "Cannot delete default template",
                                id, <<>>, {})
            /\ UNCHANGED reqs
       ELSE /\ reqs' = [reqs EXCEPT ![k] = [op |-> "templates.delete", id |-> id,
                                            name |-> "", is_default |-> "undefined"]]
            /\ UNCHANGED resp

\* DELETE /templates/:id up to its DELETE statement: the SELECT of the row and
\* the COUNT of the certificates that use it
TemplatesDelete(k, id) ==
    /\ reqs[k].op = "idle"
    /\ UNCHANGED <<elsewhere, certificates, nextId, files, now, bulk, tiers, templates, nextTemplateId>>
    /\ IF id \notin DOMAIN templates
       THEN /\ resp' = Response("templates.delete", 404, "Template not found", id, <<>>, {})
            /\ UNCHANGED reqs
       ELSE IF templates[id].is_default # 0
       THEN /\ resp' = Response("templates.delete", 400, "Cannot delete default template",
                                id, <<>>, {})
            /\ UNCHANGED reqs
       ELSE IF Referenced("template_id", id)
       THEN /\ resp' = Response("templates.delete", 400,
                                "Cannot delete template that is being used by certificates",
                                id, <<>>, {})
            /\ UNCHANGED reqs
       ELSE /\ reqs' = [reqs EXCEPT ![k] = [op |-> "templates.delete", id |-> id,
                                            name |-> "", is_default |-> "undefined"]]
            /\ UNCHANGED resp

\* DELETE FROM templates WHERE id = $1 and the answer; the statement throws
\* when a certificate references the row
TemplatesDeleteRun(k) ==
    /\ reqs[k].op = "templates.delete"
    /\ UNCHANGED <<elsewhere, certificates, nextId, files, now, bulk, tiers, nextTemplateId>>
    /\ reqs' = [reqs EXCEPT ![k] = NoReq]
    /\ IF Referenced("template_id", reqs[k].id)
       THEN /\ resp' = Response("templates.delete", 500, "Failed to delete template",
                                reqs[k].id, <<>>, {})
            /\ UNCHANGED templates
       ELSE /\ templates' = DeleteRow(templates, reqs[k].id)
            /\ resp' = Response("templates.delete", 200, "", reqs[k].id, <<>>, {})

\* DELETE /tiers/:id up to its DELETE statement: the COUNT of the certificates
\* that use the tier
TiersDelete(k, id) ==
    /\ reqs[k].op = "idle"
    /\ UNCHANGED <<elsewhere, certificates, nextId, files, now, bulk, tiers, templates, nextTemplateId>>
    /\ IF Referenced("tier_id", id)
       THEN /\ resp' = Response("tiers.delete", 400,
                                "Cannot delete tier that is being used by certificates",
                                id, <<>>, {})
            /\ UNCHANGED reqs
       ELSE /\ reqs' = [reqs EXCEPT ![k] = [op |-> "tiers.delete", id |-> id,
                                            name |-> "", is_default |-> "undefined"]]
            /\ UNCHANGED resp

\* DELETE FROM tiers WHERE id = $1 and the answer: the statement throws when a
\* certificate references the row, and rowCount is 0 when there is no row
TiersDeleteRun(k) ==
    /\ reqs[k].op = "tiers.delete"
    /\ UNCHANGED <<elsewhere, certificates, nextId, files, now, bulk, templates, nextTemplateId>>
    /\ reqs' = [reqs EXCEPT ![k] = NoReq]
    /\ IF Referenced("tier_id", reqs[k].id)
       THEN /\ resp' = Response("tiers.delete", 500, "Failed to delete tier",
                                reqs[k].id, <<>>, {})
            /\ UNCHANGED tiers
       ELSE IF reqs[k].id \notin DOMAIN tiers
       THEN /\ resp' = Response("tiers.delete", 404, "Tier not found", reqs[k].id, <<>>, {})
            /\ UNCHANGED tiers
       ELSE /\ tiers' = DeleteRow(tiers, reqs[k].id)
            /\ resp' = Response("tiers.delete", 200, "", reqs[k].id, <<>>, {})


\* ------------------------- POST /certificates and /bulk, await by await
\* the request of connection k with another item to issue, or none
NextItem(k) ==
    IF reqs[k].left > 0
    THEN [reqs[k] EXCEPT !.left = @ - 1, !.pc = "uuid", !.certificateId = 0, !.id = 0,
                         !.calls = <<>>, !.delivered = FALSE, !.ok = TRUE]
    ELSE NoReq

\* a request for n certificates of employee 1, tier 1 and template 1 arrives:
\* POST / issues one, POST /bulk one per element of certData
IssueStart(k, route, n, send_email) ==
    /\ reqs[k].op = "idle"
    /\ route = "create" => n = 1
    /\ reqs' = [reqs EXCEPT ![k] =
                   [op |-> "issue", route |-> route, left |-> n - 1,
                    send_email |-> send_email, pc |-> "uuid", certificateId |-> 0,
                    id |-> 0, calls |-> <<>>, delivered |-> FALSE, ok |-> TRUE]]
    /\ UNCHANGED <<elsewhere, certificates, nextId, files, now, bulk, resp, catalog>>

\* the three lookups resolved: const certificateId = uuidv4()
IssueUuid(k) ==
    /\ reqs[k].op = "issue" /\ reqs[k].pc = "uuid"
    /\ Cardinality(files \cup InFlightIds) < MaxCerts
    /\ reqs' = [reqs EXCEPT ![k].certificateId = uuidv4, ![k].pc = "render"]
    /\ UNCHANGED <<elsewhere, certificates, nextId, files, now, bulk, resp, catalog>>

\* await generateCertificatePDF(...): the file is written, or the renderer
\* throws and the item is over
IssueRender(k, fault) ==
    /\ reqs[k].op = "issue" /\ reqs[k].pc = "render"
    /\ IF fault = "render"
       THEN /\ reqs' = [reqs EXCEPT ![k].calls = Append(@, "render"), ![k].ok = FALSE,
                                     ![k].pc = "end"]
            /\ UNCHANGED files
       ELSE /\ files' = files \cup {reqs[k].certificateId}
            /\ reqs' = [reqs EXCEPT ![k].calls = Append(@, "render"), ![k].pc = "insert"]
    /\ UNCHANGED <<elsewhere, certificates, nextId, now, bulk, resp, catalog>>

\* mutant of IssueInsert: the row is inserted with email_sent = 1 when the
\* request asks for the email
IssueInsertMarked(k, fault) ==
    /\ reqs[k].op = "issue" /\ reqs[k].pc = "insert"
    /\ IF \/ fault = "insert"
          \/ \E r \in DOMAIN certificates :
                 certificates[r].certificate_id = reqs[k].certificateId
       THEN /\ reqs' = [reqs EXCEPT ![k].calls = Append(@, "insert"), ![k].ok = FALSE,
                                     ![k].pc = "end"]
            /\ UNCHANGED <<certificates, nextId>>
       ELSE /\ certificates' =
                   InsertRow(certificates, nextId,
                             [NewRow(reqs[k].certificateId, 1, 1, 1, 1) EXCEPT
                                 !.email_sent = IF reqs[k].send_email THEN 1 ELSE 0])
            /\ nextId' = nextId + 1
            /\ reqs' = [reqs EXCEPT ![k].calls = Append(@, "insert"), ![k].id = nextId,
                                     ![k].pc = IF reqs[k].send_email THEN "dispatch"
                                                                     ELSE "end"]
    /\ UNCHANGED <<elsewhere, files, now, bulk, resp, catalog>>

\* await run(INSERT INTO certificates ... RETURNING id): certificate_id is
\* UNIQUE, and the statement may fail for other reasons
IssueInsert(k, fault) ==
    /\ reqs[k].op = "issue" /\ reqs[k].pc = "insert"
    /\ IF \/ fault = "insert"
          \/ \E r \in DOMAIN certificates :
                 certificates[r].certificate_id = reqs[k].certificateId
       THEN /\ reqs' = [reqs EXCEPT ![k].calls = Append(@, "insert"), ![k].ok = FALSE,
                                     ![k].pc = "end"]
            /\ UNCHANGED <<certificates, nextId>>
       ELSE /\ certificates' = InsertRow(certificates, nextId,
                                         NewRow(reqs[k].certificateId, 1, 1, 1, 1))
            /\ nextId' = nextId + 1
            /\ reqs' = [reqs EXCEPT ![k].calls = Append(@, "insert"), ![k].id = nextId,
                                     ![k].pc = IF reqs[k].send_email THEN "dispatch"
                                                                     ELSE "end"]
    /\ UNCHANGED <<elsewhere, files, now, bulk, resp, catalog>>

\* mutant of IssueDispatch: the UPDATE follows a rejected send as well
IssueDispatchThenUpdate(k, fault) ==
    /\ reqs[k].op = "issue" /\ reqs[k].pc = "dispatch"
    /\ reqs' = [reqs EXCEPT ![k].calls = Append(@, "dispatch"),
                             ![k].delivered = (fault # "email"),
                             ![k].pc = "update"]
    /\ UNCHANGED <<elsewhere, certificates, nextId, files, now, bulk, resp, catalog>>

\* await sendCertificateEmail(...): a rejection is caught and logged
IssueDispatch(k, fault) ==
    /\ reqs[k].op = "issue" /\ reqs[k].pc = "dispatch"
    /\ reqs' = [reqs EXCEPT ![k].calls = Append(@, "dispatch"),
                             ![k].delivered = (fault # "email"),
                             ![k].pc = IF fault = "email" THEN "end" ELSE "update"]
    /\ UNCHANGED <<elsewhere, certificates, nextId, files, now, bulk, resp, catalog>>

\* await run(UPDATE certificates SET email_sent = 1, sent_at = ... WHERE id)
IssueUpdate(k) ==
    /\ reqs[k].op = "issue" /\ reqs[k].pc = "update"
    /\ certificates' = MarkSent(certificates, reqs[k].id)
    /\ reqs' = [reqs EXCEPT ![k].calls = Append(@, "update"), ![k].pc = "end"]
    /\ UNCHANGED <<elsewhere, nextId, files, now, bulk, resp, catalog>>

\* the item is over: POST / answers 201 after its last SELECT, or 500 from
\* its catch; POST /bulk goes on with the next element, or answers 200
IssueEnd(k) ==
    /\ reqs[k].op = "issue" /\ reqs[k].pc = "end"
    /\ reqs' = [reqs EXCEPT ![k] = NextItem(k)]
    /\ resp' = IF reqs[k].route = "create"
               THEN IF reqs[k].ok
                    THEN Response("create", 201, "", reqs[k].id, reqs[k].calls, {})
                    ELSE Response("create", 500, "Failed to create certificate", 0,
                                  reqs[k].calls, {})
               ELSE IF reqs[k].left > 0 THEN resp
               ELSE Response("bulk", 200, "", 0, reqs[k].calls, {})
    /\ UNCHANGED <<elsewhere, certificates, nextId, files, now, bulk, catalog>>

\* ------------------------------------------ GET /certificates/stats/overview
\* the first two tiers seedDefaultData inserts
TwoTiers ==
    (1 :> [name |-> "Top Performer", rank |-> 1])
    @@ (2 :> [name |-> "Performer Plus", rank |-> 2])

\* PUT /tiers/reorder/all: in one transaction, the i-th tier named gets rank i
TiersReorder(order) ==
    /\ tiers' = [r \in DOMAIN tiers |->
                    IF \E i \in 1..Len(order) : order[i] = r
                    THEN [tiers[r] EXCEPT !.rank =
                              CHOOSE i \in 1..Len(order) :
                                  /\ order[i] = r
                                  /\ \A j \in (i + 1)..Len(order) : order[j] # r]
                    ELSE tiers[r]]
    /\ resp' = Response("tiers.reorder", 200, "", 0, <<>>, {})
    /\ UNCHANGED <<elsewhere, certificates, nextId, files, now, bulk, templates,
                   nextTemplateId, reqs>>

\* ORDER BY t.rank: the tier ids by rank
RECURSIVE ByRank(_)
ByRank(ids) ==
    IF ids = {} THEN <<>>
    ELSE LET first == CHOOSE r \in ids : \A q \in ids : tiers[r].rank <= tiers[q].rank
         IN  <<first>> \o ByRank(ids \ {first})

\* FROM tiers t LEFT JOIN certificates c ON t.id = c.tier_id GROUP BY t.id
\* ORDER BY t.rank: name and COUNT(c.id) of every tier
certificatesByTier ==
    LET ids == ByRank(DOMAIN tiers)
    IN  [n \in 1..Len(ids) |->
            [name |-> tiers[ids[n]].name,
             count |-> Cardinality({c \in DOMAIN certificates :
                                       certificates[c].tier_id = ids[n]})]]

\* ORDER BY c.created_at DESC LIMIT 5
recentCertificates ==
    {c \in DOMAIN certificates : Cardinality({d \in DOMAIN certificates : d > c}) < 5}

\* the handler runs SELECT COUNT(*) FROM certificates and awaits the result
StatsOverview(k) ==
    /\ reqs[k].op = "idle"
    /\ reqs' = [reqs EXCEPT ![k] =
                   [op |-> "stats.overview",
                    totalCertificates |-> Cardinality(DOMAIN certificates)]]
    /\ UNCHANGED <<elsewhere, certificates, nextId, files, now, bulk, resp, catalog>>

\* the remaining queries run and the response is assembled from what the four
\* queries returned
StatsOverviewRespond(k) ==
    /\ reqs[k].op = "stats.overview"
    /\ resp' = Response("stats.overview", 200, "", 0, <<>>,
                        [totalCertificates |-> reqs[k].totalCertificates,
                         totalEmployees |-> Cardinality(DOMAIN employees),
                         certificatesByTier |-> certificatesByTier,
                         recentCertificates |-> recentCertificates])
    /\ reqs' = [reqs EXCEPT ![k] = NoReq]
    /\ UNCHANGED <<elsewhere, certificates, nextId, files, now, bulk, catalog>>

\* ------------------------------------------------- settings, emailService
\* PUT /settings/:key: INSERT ... ON CONFLICT(key) DO UPDATE
SettingsPutKey(key, value) ==
    /\ settings' = [k \in DOMAIN settings \cup {key} |->
                        IF k = key THEN value ELSE settings[k]]
    /\ resp' = Response("settings.put", 200, "", 0, <<>>, {})
    /\ UNCHANGED <<certificates, nextId, files, now, bulk, catalog, reqs, mail, printed,
                   apart>>

\* JavaScript truthiness of obj[key]: undefined and '' are falsy
Truthy(obj, key) == key \in DOMAIN obj /\ obj[key] # <<>>

\* obj[key] || other
Or(obj, key, other) == IF Truthy(obj, key) THEN obj[key] ELSE other

\* obj[key] inside a template literal
Interpolated(obj, key) == IF key \in DOMAIN obj THEN obj[key] ELSE <<"undefined">>

\* the replacement string of String.prototype.replace: "$&" stands for the
\* matched text
Expand(value, matched) ==
    [n \in 1..Len(value) |-> IF value[n] = "$&" THEN matched ELSE value[n]]

\* text.replace(new RegExp(key, 'g'), value)
RECURSIVE ReplaceAll(_, _, _)
ReplaceAll(text, key, value) ==
    IF text = <<>> THEN <<>>
    ELSE (IF Head(text) = key THEN Expand(value, key) ELSE <<Head(text)>>)
             \o ReplaceAll(Tail(text), key, value)

\* the loop over Object.entries(replacements), in the order given
RECURSIVE ReplaceEach(_, _, _)
ReplaceEach(text, order, replacements) ==
    IF order = <<>> THEN text
    ELSE ReplaceEach(ReplaceAll(text, Head(order), replacements[Head(order)]),
                     Tail(order), replacements)

\* body.replace(/\\n/g, '\n')
Unescape(text) == ReplaceAll(text, "\\n", <<"\n">>)

createSmtpTransporter(obj) ==
    IF ~Truthy(obj, "smtp_host") \/ ~Truthy(obj, "smtp_user")
    THEN "SMTP settings not configured" ELSE ""

createResendClient(obj) ==
    IF ~Truthy(obj, "resend_api_key") THEN "Resend API key not configured" ELSE ""

createMailgunClientKeyOnly(obj) ==
    IF ~Truthy(obj, "mailgun_api_key") THEN "Mailgun settings not configured" ELSE ""

createMailgunClient(obj) ==
    IF ~Truthy(obj, "mailgun_api_key") \/ ~Truthy(obj, "mailgun_domain")
    THEN "Mailgun settings not configured" ELSE ""

\* sendWithSmtp, sendWithResend, sendWithMailgun: the client is created first,
\* and the message is handed over only if that did not throw; the provider
\* may then reject it
sendWith(provider, configError, fault) ==
    IF configError # ""
    THEN [via |-> provider, handed |-> <<>>, error |-> configError]
    ELSE [via |-> provider, handed |-> <<provider>>,
          error |-> IF fault = "send" THEN "send failed" ELSE ""]

sendEmail(obj, fault) ==
    LET provider == Or(obj, "email_provider", <<"smtp">>)
    IN  IF provider = <<"resend">>
        THEN sendWith("resend", createResendClient(obj), fault)
        ELSE IF provider = <<"mailgun">>
        THEN sendWith("mailgun", createMailgunClient(obj), fault)
        ELSE sendWith("smtp", createSmtpTransporter(obj), fault)

getFromAddressResendFirst(obj) ==
    LET provider == Or(obj, "email_provider", <<"resend">>)
    IN  IF provider = <<"resend">>
        THEN Or(obj, "resend_from_name", <<"HonorHub">>) \o <<" <">>
                 \o Or(obj, "resend_from_email", <<"onboarding@resend.dev">>) \o <<">">>
        ELSE IF provider = <<"mailgun">>
        THEN Or(obj, "mailgun_from_name", <<"HonorHub">>) \o <<" <">>
                 \o Or(obj, "mailgun_from_email",
                        <<"noreply@">> \o Interpolated(obj, "mailgun_domain")) \o <<">">>
        ELSE Or(obj, "smtp_from_name", <<"HonorHub">>) \o <<" <">>
                 \o Or(obj, "smtp_from_email", Interpolated(obj, "smtp_user")) \o <<">">>

getFromAddress(obj) ==
    LET provider == Or(obj, "email_provider", <<"smtp">>)
    IN  IF provider = <<"resend">>
        THEN Or(obj, "resend_from_name", <<"HonorHub">>) \o <<" <">>
                 \o Or(obj, "resend_from_email", <<"onboarding@resend.dev">>) \o <<">">>
        ELSE IF provider = <<"mailgun">>
        THEN Or(obj, "mailgun_from_name", <<"HonorHub">>) \o <<" <">>
                 \o Or(obj, "mailgun_from_email",
                        <<"noreply@">> \o Interpolated(obj, "mailgun_domain")) \o <<">">>
        ELSE Or(obj, "smtp_from_name", <<"HonorHub">>) \o <<" <">>
                 \o Or(obj, "smtp_from_email", Interpolated(obj, "smtp_user")) \o <<">">>

\* settings.email_subject_template || '...'
subjectTemplate(obj) ==
    Or(obj, "email_subject_template",
       <<"Congratulations! You have been recognized as ", "{tier}">>)

\* settings.email_body_template || '...'
bodyTemplate(obj) ==
    Or(obj, "email_body_template", <<"Dear ", "{employee_name}", ",\n\nCongratulations!">>)

\* mutant of getEmailSettings: the settings as they were when the process
\* started, kept across calls
getEmailSettingsCached == SeedSettings

\* getEmailSettings: SELECT key, value FROM settings, at every call
getEmailSettings == settings

\* the message sendCertificateEmail makes of its options and of the settings
\* it reads, and what sendEmail does with it
certificateEmail(employee, tier, sender, customMessage, fault) ==
    LET obj == getEmailSettings
        replacements ==
            ("{tier}" :> tier.name) @@ ("{employee_name}" :> employee.name)
            @@ ("{custom_message}" :> customMessage) @@ ("{sender_name}" :> sender.name)
            @@ ("{company_name}" :> Or(obj, "company_name", <<"Your Company">>))
        sent == sendEmail(obj, fault)
    IN  [to |-> employee.email,
         replacements |-> replacements,
         subject |-> ReplaceEach(subjectTemplate(obj), Tokens, replacements),
         text |-> Unescape(ReplaceEach(bodyTemplate(obj), Tokens, replacements)),
         from |-> getFromAddress(obj),
         via |-> sent.via, handed |-> sent.handed, error |-> sent.error]

\* sendCertificateEmail: the settings are read once, the subject and the body
\* are rendered, and the message goes to sendEmail
sendCertificateEmail(employee, tier, sender, customMessage, fault) ==
    /\ mail' = certificateEmail(employee, tier, sender, customMessage, fault)
    /\ UNCHANGED <<certificates, nextId, files, now, bulk, resp, catalog, reqs, settings,
                   printed, apart>>

\* ------------------------------------------------- the signature on the PDF
\* POST /certificates: req.user.signature_name || globalSignatureName?.value
signatureName(user) ==
    Or(user, "signature_name", Or(settings, "global_signature_name", <<>>))

\* POST /certificates: req.user.signature_title || globalSignatureTitle?.value
signatureTitle(user) ==
    Or(user, "signature_title", Or(settings, "global_signature_title", <<>>))

\* mutant of sigName: the sender's account name is not a fallback
sigNameNoAccountName(override, sender) ==
    IF override # <<>> THEN override ELSE Or(sender, "signature_name", <<>>)

\* generateCertificatePDF:
\* signatureName || sender?.signature_name || sender?.name || ''
sigName(override, sender) ==
    IF override # <<>> THEN override
    ELSE Or(sender, "signature_name", Or(sender, "name", <<>>))

\* generateCertificatePDF: signatureTitle || sender?.signature_title || ''
sigTitle(override, sender) ==
    IF override # <<>> THEN override ELSE Or(sender, "signature_title", <<>>)

\* the route resolves the two fields and the renderer draws the block
generateCertificatePDF(user) ==
    /\ printed' = [sender |-> user,
                    signatureName |-> signatureName(user),
                    signatureTitle |-> signatureTitle(user),
                    sigName |-> sigName(signatureName(user), user),
                    sigTitle |-> sigTitle(signatureTitle(user), user)]
    /\ UNCHANGED <<certificates, nextId, files, now, bulk, resp, catalog, reqs, settings,
                   mail, apart>>

\* ---------------------------------- POST /certificates/bulk, await by await
\* req.user of the bulk request: an admin without personal signature fields
BatchUser ==
    [id |-> 1, name |-> <<"Admin">>, signature_name |-> <<>>, signature_title |-> <<>>]

\* an element of certData the loop has not reached
NoItem == [pc |-> "todo", certificateId |-> 0, id |-> 0]

\* the request arrives: the array check, then the signature is read from the
\* settings, once, before the loop
BatchStart(certData, send_email) ==
    /\ batch.pc = "idle"
    /\ IF Len(certData) = 0
       THEN /\ resp' = Response("bulk", 400, "Invalid certificates data", 0, <<>>, {})
            /\ UNCHANGED batch
       ELSE /\ batch' = [NoBatch EXCEPT
                            !.pc = "loop", !.certData = certData,
                            !.send_email = send_email,
                            !.signatureName = signatureName(BatchUser),
                            !.signatureTitle = signatureTitle(BatchUser),
                            !.items = [i \in 1..Len(certData) |-> NoItem]]
            /\ UNCHANGED resp
    /\ UNCHANGED <<aside, certificates, nextId, files, now, bulk, catalog, reqs, settings, mail,
                   printed>>

\* the pass over element i ends in the catch: results.failed++, errors.push
ItemThrows(i, error) ==
    [batch EXCEPT !.items[i].pc = "done",
                  !.results = ItemFailed(@, batch.certData[i], error)]

\* the pass over element i ends: results.success++, certificates.push
ItemDone(i, id) ==
    [batch EXCEPT !.items[i].pc = "done", !.items[i].id = id,
                  !.results = ItemSucceeded(@, id,
                                  employees[batch.certData[i].employee_id].name)]

\* mutant of ItemBegin: the passes are started without awaiting the earlier
\* ones
ItemBeginUnordered(i) ==
    /\ batch.pc = "loop" /\ i \in DOMAIN batch.items
    /\ batch.items[i].pc = "todo"
    /\ batch' = IF BadRefs(batch.certData[i]) # {}
                THEN ItemThrows(i, "Invalid employee, tier, or template reference")
                ELSE [batch EXCEPT !.items[i].pc = "render"]
    /\ UNCHANGED <<aside, certificates, nextId, files, now, bulk, resp, catalog, reqs, settings,
                   mail, printed>>

\* for (const cert of certData): the pass over element i begins when the
\* passes before it are over; the three lookups, and continue if one is empty
ItemBegin(i) ==
    /\ batch.pc = "loop" /\ i \in DOMAIN batch.items
    /\ batch.items[i].pc = "todo"
    /\ \A j \in 1..(i - 1) : batch.items[j].pc = "done"
    /\ batch' = IF BadRefs(batch.certData[i]) # {}
                THEN ItemThrows(i, "Invalid employee, tier, or template reference")
                ELSE [batch EXCEPT !.items[i].pc = "render"]
    /\ UNCHANGED <<aside, certificates, nextId, files, now, bulk, resp, catalog, reqs, settings,
                   mail, printed>>

\* const certificateId = uuidv4(); await generateCertificatePDF({...,
\* signatureName, signatureTitle}) with the signature read before the loop
ItemRender(i, fault) ==
    /\ batch.pc = "loop" /\ i \in DOMAIN batch.items
    /\ batch.items[i].pc = "render"
    /\ IF fault = "render"
       THEN /\ batch' = ItemThrows(i, ErrorMessage(fault))
            /\ UNCHANGED <<files, printed>>
       ELSE /\ Cardinality(files) < MaxCerts
            /\ files' = files \cup {uuidv4}
            /\ printed' = [sender |-> BatchUser,
                           signatureName |-> batch.signatureName,
                           signatureTitle |-> batch.signatureTitle,
                           sigName |-> sigName(batch.signatureName, BatchUser),
                           sigTitle |-> sigTitle(batch.signatureTitle, BatchUser)]
            /\ batch' = [batch EXCEPT !.items[i].pc = "insert",
                                      !.items[i].certificateId = uuidv4]
    /\ UNCHANGED <<aside, certificates, nextId, now, bulk, resp, catalog, reqs, settings, mail>>

\* await run(INSERT INTO certificates ... RETURNING id)
ItemInsert(i, fault) ==
    /\ batch.pc = "loop" /\ i \in DOMAIN batch.items
    /\ batch.items[i].pc = "insert"
    /\ IF fault = "insert"
       THEN /\ batch' = ItemThrows(i, ErrorMessage(fault))
            /\ UNCHANGED <<certificates, nextId>>
       ELSE /\ certificates' =
                   InsertRow(certificates, nextId,
                             NewRow(batch.items[i].certificateId,
                                    batch.certData[i].employee_id,
                                    batch.certData[i].tier_id,
                                    batch.certData[i].template_id, BatchUser.id))
            /\ nextId' = nextId + 1
            /\ batch' = IF batch.send_email
                        THEN [batch EXCEPT !.items[i].pc = "dispatch",
                                           !.items[i].id = nextId]
                        ELSE ItemDone(i, nextId)
    /\ UNCHANGED <<aside, files, now, bulk, resp, catalog, reqs, settings, mail, printed>>

\* await sendCertificateEmail(...): a rejection is caught and logged, and the
\* element counts as created
ItemDispatch(i, fault) ==
    /\ batch.pc = "loop" /\ i \in DOMAIN batch.items
    /\ batch.items[i].pc = "dispatch"
    /\ LET cert == batch.certData[i]
           sent == certificateEmail(
                       [name |-> <<employees[cert.employee_id].name>>,
                        email |-> employees[cert.employee_id].email],
                       [name |-> <<tiers[cert.tier_id].name>>], BatchUser, <<>>, fault)
       IN  /\ mail' = sent
           /\ batch' = IF sent.error # ""
                       THEN ItemDone(i, batch.items[i].id)
                       ELSE [batch EXCEPT !.items[i].pc = "update"]
    /\ UNCHANGED <<aside, certificates, nextId, files, now, bulk, resp, catalog, reqs, settings,
                   printed>>

\* await run(UPDATE certificates SET email_sent = 1, sent_at = ... WHERE id)
ItemUpdate(i) ==
    /\ batch.pc = "loop" /\ i \in DOMAIN batch.items
    /\ batch.items[i].pc = "update"
    /\ certificates' = MarkSent(certificates, batch.items[i].id)
    /\ batch' = ItemDone(i, batch.items[i].id)
    /\ UNCHANGED <<aside, nextId, files, now, bulk, resp, catalog, reqs, settings, mail, printed>>

\* the loop is over: res.json({message, ...results})
BatchRespond ==
    /\ batch.pc = "loop"
    /\ \A i \in DOMAIN batch.items : batch.items[i].pc = "done"
    /\ resp' = Response("bulk", 200, "", 0, <<>>, {batch.results})
    /\ batch' = NoBatch
    /\ UNCHANGED <<aside, certificates, nextId, files, now, catalog, bulk, reqs, settings, mail,
                   printed>>

\* ------------------------------------------------------ POST /auth/register
\* req.body.email after normalizeEmail, '' when isEmail rejects it
Emails == {"", "ada@example.com", "bob@example.com"}

\* SELECT COUNT(*) as count FROM users
userCount == Cardinality(DOMAIN accounts)

\* SELECT id FROM users WHERE email = $1
existingUser(email) == {id \in DOMAIN accounts : accounts[id].email = email}

\* the next value of the SERIAL sequence of users.id: no row is ever deleted
\* by these routes
nextUserId == Cardinality(DOMAIN accounts) + 1

\* GET /auth/signup-allowed
SignupAllowed ==
    /\ resp' = Response("signup-allowed", 200, "", 0, <<>>, {[allowed |-> userCount = 0]})
    /\ UNCHANGED <<certificates, nextId, files, now, bulk, catalog, reqs, settings, mail,
                   printed, batch, aside>>

\* POST /auth/register up to its first await: the validation, then the COUNT
\* of the users; 403 when there is one
Register(k, email) ==
    /\ reqs[k].op = "idle"
    /\ IF email = ""
       THEN /\ resp' = Response("register", 400, "validation", 0, <<>>, {})
            /\ UNCHANGED reqs
       ELSE IF userCount > 0
       THEN /\ resp' = Response("register", 403,
                           "Registration is disabled. Please contact your administrator.",
                           0, <<>>, {})
            /\ UNCHANGED reqs
       ELSE /\ reqs' = [reqs EXCEPT ![k] = [op |-> "register", pc |-> "existingUser",
                                            email |-> email]]
            /\ UNCHANGED resp
    /\ UNCHANGED <<certificates, nextId, files, now, bulk, catalog, settings, mail, printed,
                   batch, aside>>

\* await getOne(SELECT id FROM users WHERE email = $1): 400 when there is one
RegisterExistingUser(k) ==
    /\ reqs[k].op = "register" /\ reqs[k].pc = "existingUser"
    /\ IF existingUser(reqs[k].email) # {}
       THEN /\ resp' = Response("register", 400, "Email already registered", 0, <<>>, {})
            /\ reqs' = [reqs EXCEPT ![k] = NoReq]
       ELSE /\ reqs' = [reqs EXCEPT ![k].pc = "insert"]
            /\ UNCHANGED resp
    /\ UNCHANGED <<certificates, nextId, files, now, bulk, catalog, settings, mail, printed,
                   batch, aside>>

\* await run(INSERT INTO users ... 'admin' RETURNING id): email is UNIQUE, and
\* a violation ends in the catch; otherwise 201 with the token
RegisterInsert(k) ==
    /\ reqs[k].op = "register" /\ reqs[k].pc = "insert"
    /\ IF existingUser(reqs[k].email) # {}
       THEN /\ resp' = Response("register", 500, "Failed to create user", 0, <<>>, {})
            /\ UNCHANGED accounts
       ELSE /\ accounts' = InsertRow(accounts, nextUserId,
                                     [email |-> reqs[k].email, role |-> "admin"])
            /\ resp' = Response("register", 201, "", nextUserId, <<>>, {})
    /\ reqs' = [reqs EXCEPT ![k] = NoReq]
    /\ UNCHANGED <<certificates, nextId, files, now, bulk, catalog, settings, mail, printed,
                   batch, call>>

\* ------------------------------------------------ the logo on the PDF
\* the company_logo of the settings ('' when none is stored) and what the disk
\* holds at that path
Logos ==
    [companyLogoPath : {"", "/uploads/logos/logo.png", "/uploads/logos/logo.jpeg",
                        "/uploads/logos/logo.gif"},
     exists : BOOLEAN, readable : BOOLEAN, decodable : BOOLEAN]

\* the block of the renderer that embeds the logo, before its catch: the logo
\* is drawn, or left out, or a call of the block throws
logoBlock(logo) ==
    IF ~logo.exists THEN "left out"
    ELSE IF ~logo.readable THEN "readFileSync throws"
    ELSE IF logo.companyLogoPath \in {"/uploads/logos/logo.png", "/uploads/logos/logo.jpeg"}
    THEN IF logo.decodable THEN "drawn" ELSE "embed throws"
    ELSE "left out"

\* mutant of embedLogo: the block is not wrapped in try/catch
embedLogoUncaught(logo) ==
    IF logo.companyLogoPath = ""
    THEN [logoEmbedded |-> FALSE, threw |-> FALSE]
    ELSE [logoEmbedded |-> logoBlock(logo) = "drawn",
          threw |-> logoBlock(logo) \in {"readFileSync throws", "embed throws"}]

\* if (companyLogoPath) { try {...} catch (err) { console.error(...) } }
embedLogo(logo) ==
    IF logo.companyLogoPath = ""
    THEN [logoEmbedded |-> FALSE, threw |-> FALSE]
    ELSE [logoEmbedded |-> logoBlock(logo) = "drawn", threw |-> FALSE]

\* await generateCertificatePDF({..., companyLogoPath, ...}): the logo block,
\* then the rest of the page; the file is written and its path returned,
\* or the renderer throws and the item is over
LogoRender(k, logo, fault) ==
    /\ reqs[k].op = "issue" /\ reqs[k].pc = "render"
    /\ LET threw == embedLogo(logo).threw \/ fault = "render"
       IN  /\ IF threw
              THEN /\ reqs' = [reqs EXCEPT ![k].calls = Append(@, "render"),
                                            ![k].ok = FALSE, ![k].pc = "end"]
                   /\ UNCHANGED files
              ELSE /\ files' = files \cup {reqs[k].certificateId}
                   /\ reqs' = [reqs EXCEPT ![k].calls = Append(@, "render"),
                                            ![k].pc = "insert"]
           /\ call' = [fn |-> "generateCertificatePDF", done |-> TRUE, logo |-> logo,
                       fault |-> fault, certificateId |-> reqs[k].certificateId,
                       logoEmbedded |-> embedLogo(logo).logoEmbedded, threw |-> threw,
                       returned |-> IF threw THEN <<>> ELSE PdfPath(reqs[k].certificateId)]
    /\ UNCHANGED <<settings, mail, printed, batch, accounts, certificates, nextId, now,
                   bulk, resp, catalog>>

\* ------------------------------------------- the renderer's helpers: wrapText
\* the characters of a text: the space, a narrow glyph and a wide glyph
Chars == {" ", "i", "W"}

\* the texts of at most n characters
RECURSIVE TextsUpTo(_)
TextsUpTo(n) ==
    IF n = 0 THEN {<<>>}
    ELSE LET shorter == TextsUpTo(n - 1)
         IN  shorter \cup {<<c>> \o t : c \in Chars, t \in {u \in shorter : Len(u) = n - 1}}

\* the font metric at the size in use: the advance of each glyph
GlyphWidth == [c \in Chars |-> IF c = "W" THEN 2 ELSE 1]

\* font.widthOfTextAtSize(text, fontSize)
RECURSIVE widthOfTextAtSize(_)
widthOfTextAtSize(text) ==
    IF text = <<>> THEN 0 ELSE GlyphWidth[Head(text)] + widthOfTextAtSize(Tail(text))

\* text.split(' '): the pieces between the spaces, the empty ones included
RECURSIVE split(_)
split(text) ==
    IF text = <<>> THEN << <<>> >>
    ELSE LET rest == split(Tail(text))
         IN  IF Head(text) = " "
             THEN << <<>> >> \o rest
             ELSE << <<Head(text)>> \o Head(rest) >> \o Tail(rest)

\* mutant of forEachWord: the word alone is measured, not the line with the
\* word appended
forEachWordMeasuringWord(words, lines, currentLine, maxWidth) ==
    LET word == Head(words)
        testLine == IF currentLine # <<>> THEN currentLine \o <<" ">> \o word ELSE word
        testWidth == widthOfTextAtSize(word)
    IN  IF testWidth > maxWidth /\ currentLine # <<>>
        THEN [lines |-> Append(lines, currentLine), currentLine |-> word]
        ELSE [lines |-> lines, currentLine |-> testLine]

\* mutant of forEachWord: the word that does not fit is not carried to the
\* next line
forEachWordDropping(words, lines, currentLine, maxWidth) ==
    LET word == Head(words)
        testLine == IF currentLine # <<>> THEN currentLine \o <<" ">> \o word ELSE word
        testWidth == widthOfTextAtSize(testLine)
    IN  IF testWidth > maxWidth /\ currentLine # <<>>
        THEN [lines |-> Append(lines, currentLine), currentLine |-> <<>>]
        ELSE [lines |-> lines, currentLine |-> testLine]

\* one pass of words.forEach: the word joins the current line unless the line
\* would be too wide and is not empty
forEachWord(words, lines, currentLine, maxWidth) ==
    LET word == Head(words)
        testLine == IF currentLine # <<>> THEN currentLine \o <<" ">> \o word ELSE word
        testWidth == widthOfTextAtSize(testLine)
    IN  IF testWidth > maxWidth /\ currentLine # <<>>
        THEN [lines |-> Append(lines, currentLine), currentLine |-> word]
        ELSE [lines |-> lines, currentLine |-> testLine]

\* words.forEach(...), then the last line is pushed if it is not empty
RECURSIVE forEach(_, _, _, _)
forEach(words, lines, currentLine, maxWidth) ==
    IF words = <<>>
    THEN IF currentLine # <<>> THEN Append(lines, currentLine) ELSE lines
    ELSE LET after == forEachWord(words, lines, currentLine, maxWidth)
         IN  forEach(Tail(words), after.lines, after.currentLine, maxWidth)

\* wrapText(text, font, fontSize, maxWidth)
wrapText(text, maxWidth) == forEach(split(text), <<>>, <<>>, maxWidth)

\* the arguments of a call of wrapText
WrapCalls ==
    [fn : {"wrapText"}, done : {FALSE}, text : TextsUpTo(MaxChars), maxWidth : 1..MaxWidth]

\* the call returns its lines
WrapReturn ==
    /\ call.fn = "wrapText" /\ ~call.done
    /\ call' = [fn |-> "wrapText", done |-> TRUE, text |-> call.text,
                maxWidth |-> call.maxWidth, lines |-> wrapText(call.text, call.maxWidth)]
    /\ UNCHANGED <<certificates, nextId, files, now, bulk, resp, catalog, reqs, settings,
                   mail, printed, batch, accounts>>

\* ----------------------------------------- the renderer's helpers: parseColor
\* the characters of a colour: the hash, a digit, a letter that is a
\* hexadecimal digit, a letter that is none
HexChars == {"#", "0", "b", "Z"}

\* parseInt of one hexadecimal digit; the flag i of the pattern admits both cases
HexDigit == ("0" :> 0) @@ ("b" :> 11)

\* the strings of at most n characters
RECURSIVE HexUpTo(_)
HexUpTo(n) ==
    IF n = 0 THEN {<<>>}
    ELSE LET shorter == HexUpTo(n - 1)
         IN  shorter \cup
             {<<c>> \o t : c \in HexChars, t \in {u \in shorter : Len(u) = n - 1}}

\* the JavaScript value null, and a tiers.color that is NULL
null == <<"null">>

\* BRAND.cyan, in 255ths
BRAND_cyan == <<0, 184, 230>>

\* mutant of parseColor: the pattern asks for the leading hash
parseColorHashOnly(hex) ==
    IF hex = null \/ hex = <<>> THEN null
    ELSE IF /\ Len(hex) = 7 /\ Head(hex) = "#"
            /\ \A n \in 2..7 : hex[n] \in DOMAIN HexDigit
         THEN <<16 * HexDigit[hex[2]] + HexDigit[hex[3]],
                16 * HexDigit[hex[4]] + HexDigit[hex[5]],
                16 * HexDigit[hex[6]] + HexDigit[hex[7]]>>
         ELSE null

\* parseColor(hex): null for a falsy argument; /^#?([a-f\d]{2})([a-f\d]{2})
\* ([a-f\d]{2})$/i, then parseInt(., 16) / 255 of each group, in 255ths
parseColor(hex) ==
    IF hex = null \/ hex = <<>> THEN null
    ELSE LET digits == IF Head(hex) = "#" THEN Tail(hex) ELSE hex
         IN  IF Len(digits) = 6 /\ \A n \in 1..6 : digits[n] \in DOMAIN HexDigit
             THEN <<16 * HexDigit[digits[1]] + HexDigit[digits[2]],
                    16 * HexDigit[digits[3]] + HexDigit[digits[4]],
                    16 * HexDigit[digits[5]] + HexDigit[digits[6]]>>
             ELSE null

\* const tierColor = parseColor(tier.color) || BRAND.cyan
tierColor(color) == IF parseColor(color) # null THEN parseColor(color) ELSE BRAND_cyan

\* the tiers.color of the tier being drawn
ColorCalls == [fn : {"parseColor"}, done : {FALSE}, color : HexUpTo(MaxHex) \cup {null}]

\* the tier name is drawn in tierColor
ColorReturn ==
    /\ call.fn = "parseColor" /\ ~call.done
    /\ call' = [fn |-> "parseColor", done |-> TRUE, color |-> call.color,
                tierColor |-> tierColor(call.color)]
    /\ UNCHANGED <<certificates, nextId, files, now, bulk, resp, catalog, reqs, settings,
                   mail, printed, batch, accounts>>

\* --------------------------------------------------- the specifications
\* a request whose references do not resolve never reaches the renderer, and
\* no email is sent unless asked for
CreateReq ==
    \E u \in DOMAIN users, e \in RefIds, t \in RefIds, tp \in RefIds,
       send_email \in BOOLEAN, fault \in Faults :
        /\ BadRefs([employee_id |-> e, tier_id |-> t, template_id |-> tp]) # {}
                => fault = "none"
        /\ fault = "email" => send_email
        /\ Create(u, e, t, tp, send_email, fault)

ResendReq ==
    \E u \in DOMAIN users, id \in 1..MaxCerts, fault \in {"none", "email"} :
        Resend(u, id, fault)

DeleteReq == \E u \in DOMAIN users, id \in 1..MaxCerts : Delete(u, id)

BulkReq ==
    \E u \in DOMAIN users, n \in 0..MaxBulk, send_email \in BOOLEAN :
        \E certData \in [1..n -> BulkSpecs] : BulkStart(u, certData, send_email)

\* the environment's part in one pass of the loop: an item whose references do
\* not resolve never reaches the renderer, and no email is sent unless asked for
BulkStep ==
    \E fault \in Faults :
        /\ bulk.pc = "loop" /\ bulk.i <= Len(bulk.certData)
        /\ BadRefs(bulk.certData[bulk.i]) # {} => fault = "none"
        /\ fault = "email" => bulk.send_email
        /\ BulkItem(fault)

\* the single-certificate requests, each served to completion
Next == CreateReq \/ ResendReq \/ DeleteReq \/ Tick

Spec == Init /\ [][Next]_vars

\* bulk requests served item by item, and single issues between two of them
NextBulk ==
    \/ BulkReq \/ BulkStep \/ BulkRespond \/ BulkEnd
    \/ (bulk.pc = "idle" /\ CreateReq)

SpecBulk == Init /\ [][NextBulk]_vars

\* the body is drawn with a name, or without one and without is_default
TemplatesPostReq ==
    \E k \in Conns, name \in NameArgs, is_default \in IsDefaultArgs :
        /\ name = "" => is_default = "undefined"
        /\ TemplatesPost(k, name, is_default)

TemplatesPostStep == \E k \in Conns : TemplatesPostInsert(k)

\* the body is drawn with a name, with is_default, or empty
TemplatesPutReq ==
    \E k \in Conns, id \in TemplateIds, name \in NameArgs, is_default \in IsDefaultArgs :
        /\ name # "" => is_default = "undefined"
        /\ TemplatesPut(k, id, name, is_default)

TemplatesPutStep == \E k \in Conns : TemplatesPutSet(k)

TemplatesDeleteReq == \E k \in Conns, id \in TemplateIds : TemplatesDelete(k, id)

TemplatesDeleteStep == \E k \in Conns : TemplatesDeleteRun(k)

TiersDeleteReq == \E k \in Conns, id \in RefIds : TiersDelete(k, id)

TiersDeleteStep == \E k \in Conns : TiersDeleteRun(k)

\* an admin issues the first certificate, without email, for a tier and a
\* template
IssueReq ==
    \E t \in RefIds, tp \in TemplateIds :
        /\ nextId = 1
        /\ Create(1, 1, t, tp, FALSE, "none")

\* the tiers and templates requests, their statements interleaved, and the
\* issues that make certificates reference the rows
NextTemplates ==
    \/ TemplatesPostReq \/ TemplatesPostStep
    \/ TemplatesPutReq \/ TemplatesPutStep
    \/ TemplatesDeleteReq \/ TemplatesDeleteStep
    \/ TiersDeleteReq \/ TiersDeleteStep
    \/ IssueReq

SpecTemplates == Init /\ [][NextTemplates]_vars

\* the pieces a stored subject template is made of
Pieces == {Tokens[n] : n \in 1..Len(Tokens)} \cup {"Well done "}

SubjectTemplates == UNION {[1..m -> Pieces] : m \in 0..MaxLen}

\* names and messages: plain, holding a token, holding a replacement pattern
Names == {<<"Jane Doe">>, <<"{sender_name}">>, <<"$&">>}

\* an admin stores a subject template or a company name before the first
\* message goes out
SubjectPutReq ==
    /\ mail.via = "none"
    /\ \/ \E value \in SubjectTemplates : SettingsPutKey("email_subject_template", value)
       \/ \E value \in {<<>>, <<"Integrant">>} : SettingsPutKey("company_name", value)

\* the first certificate email, for any names; an absent custom message
\* arrives as ''
SubjectSendReq ==
    \E employeeName \in Names, tierName \in Names, senderName \in Names,
       customMessage \in Names \cup {<<>>} :
        /\ mail.via = "none"
        /\ sendCertificateEmail([name |-> employeeName, email |-> "jane@example.com"],
                                [name |-> tierName], [name |-> senderName],
                                customMessage, "none")

NextSubject == SubjectPutReq \/ SubjectSendReq

SpecSubject == Init /\ [][NextSubject]_vars

\* the database after the first two seeded tiers and the seeded template
InitStats ==
    /\ InitCertificates
    /\ tiers = TwoTiers /\ templates = SeedTemplates /\ nextTemplateId = 2
    /\ InitReqs /\ InitMail /\ InitPrinted /\ InitApart

StatsReq == \E k \in Conns : StatsOverview(k)

StatsStep == \E k \in Conns : StatsOverviewRespond(k)

\* an admin issues a certificate of either tier, without email
StatsIssueReq == \E t \in DOMAIN TwoTiers : Create(1, 1, t, 1, FALSE, "none")

\* an admin names both tiers in either order
TiersReorderReq == \E order \in {<<1, 2>>, <<2, 1>>} : TiersReorder(order)

\* the statistics request, its queries interleaved with the requests that
\* change what it counts
NextStats == StatsReq \/ StatsStep \/ StatsIssueReq \/ DeleteReq \/ TiersReorderReq

SpecStats == InitStats /\ [][NextStats]_vars

IssueStartReq ==
    \E k \in Conns, route \in {"create", "bulk"}, n \in 1..MaxBulk, send_email \in BOOLEAN :
        IssueStart(k, route, n, send_email)

IssueUuidStep == \E k \in Conns : IssueUuid(k)

IssueRenderStep == \E k \in Conns, fault \in {"none", "render"} : IssueRender(k, fault)

IssueInsertStep == \E k \in Conns, fault \in {"none", "insert"} : IssueInsert(k, fault)

IssueDispatchStep == \E k \in Conns, fault \in {"none", "email"} : IssueDispatch(k, fault)

IssueUpdateStep == \E k \in Conns : IssueUpdate(k)

IssueEndStep == \E k \in Conns : IssueEnd(k)

\* single and bulk issuances on two connections, their awaits interleaved
NextIssue ==
    \/ IssueStartReq \/ IssueUuidStep \/ IssueRenderStep \/ IssueInsertStep
    \/ IssueDispatchStep \/ IssueUpdateStep \/ IssueEndStep

SpecIssue == Init /\ [][NextIssue]_vars

\* the elements of certData: tier 1 and template 1 for an employee that
\* exists or for one that does not
BatchSpecs == {[employee_id |-> e, tier_id |-> 1, template_id |-> 1] : e \in RefIds}

\* a bulk request arrives while no PDF has been written yet
BatchReq ==
    \E n \in 0..MaxBulk, send_email \in BOOLEAN :
        \E certData \in [1..n -> BatchSpecs] :
            /\ files = {}
            /\ BatchStart(certData, send_email)

ItemBeginStep == \E i \in 1..MaxBulk : ItemBegin(i)

ItemRenderStep == \E i \in 1..MaxBulk, fault \in {"none", "render"} : ItemRender(i, fault)

ItemInsertStep == \E i \in 1..MaxBulk, fault \in {"none", "insert"} : ItemInsert(i, fault)

ItemDispatchStep == \E i \in 1..MaxBulk, fault \in {"none", "send"} : ItemDispatch(i, fault)

ItemUpdateStep == \E i \in 1..MaxBulk : ItemUpdate(i)

\* an admin stores the SMTP credentials
SmtpPutReq ==
    \/ SettingsPutKey("smtp_host", <<"smtp.example.com">>)
    \/ SettingsPutKey("smtp_user", <<"mailer">>)

\* an admin stores another subject template or another global signature
BatchPutReq ==
    \/ SettingsPutKey("email_subject_template", <<"Well done ", "{employee_name}">>)
    \/ SettingsPutKey("global_signature_name", <<"HR Board">>)
    \/ SettingsPutKey("global_signature_title", <<"Chair">>)

\* one bulk request, served await by await, and the settings requests served
\* between its awaits
NextBatch ==
    \/ BatchReq \/ ItemBeginStep \/ ItemRenderStep \/ ItemInsertStep
    \/ ItemDispatchStep \/ ItemUpdateStep \/ BatchRespond \/ SmtpPutReq
    \/ BatchPutReq

SpecBatch == Init /\ [][NextBatch]_vars

\* req.user: the account name, and the personal signature fields, set or NULL
Senders ==
    [name : {<<"Admin">>, <<"Sam User">>},
     signature_name : {<<>>, <<"S. User, PhD">>},
     signature_title : {<<>>, <<"Team Lead">>}]

\* an admin stores or empties a global signature field
SignaturePutReq ==
    \E key \in {"global_signature_name", "global_signature_title"},
       value \in {<<>>, <<"Yousef Awad">>, <<"CEO">>} :
        SettingsPutKey(key, value)

SignatureReq == \E user \in Senders : generateCertificatePDF(user)

NextSignature == SignaturePutReq \/ SignatureReq

SpecSignature == Init /\ [][NextSignature]_vars

\* the provider settings an admin stores: the provider, unrecognized values
\* included, the credentials and the sender addresses, each set or emptied
ProviderValues ==
    [email_provider |-> {<<>>, <<"smtp">>, <<"resend">>, <<"mailgun">>, <<"sendgrid">>},
     smtp_host |-> {<<>>, <<"smtp.example.com">>},
     smtp_user |-> {<<>>, <<"mailer">>},
     smtp_from_email |-> {<<>>, <<"hr@example.com">>},
     resend_api_key |-> {<<>>, <<"re_key">>},
     resend_from_email |-> {<<>>, <<"hr@resend.example.com">>},
     mailgun_api_key |-> {<<>>, <<"mg_key">>},
     mailgun_domain |-> {<<>>, <<"mg.example.com">>},
     mailgun_from_email |-> {<<>>, <<"hr@mg.example.com">>}]

\* an admin stores one provider setting before the first message goes out
ProviderPutReq ==
    \E key \in DOMAIN ProviderValues :
        \E value \in ProviderValues[key] :
            /\ mail.via = "none"
            /\ SettingsPutKey(key, value)

\* the first certificate email; the provider accepts or rejects what it is
\* handed
ProviderSendReq ==
    \E fault \in {"none", "send"} :
        /\ mail.via = "none"
        /\ sendCertificateEmail([name |-> <<"Jane Doe">>, email |-> "jane@example.com"],
                                [name |-> <<"Top Performer">>], [name |-> <<"Admin">>],
                                <<>>, fault)

NextMail == ProviderPutReq \/ ProviderSendReq

SpecMail == Init /\ [][NextMail]_vars

\* wrapText applied to every text and width within the bounds
InitWrap ==
    /\ InitCertificates /\ InitCatalog /\ InitReqs /\ InitMail /\ InitPrinted
    /\ batch = NoBatch /\ call \in WrapCalls /\ accounts = <<>>

NextWrap == WrapReturn

SpecWrap == InitWrap /\ [][NextWrap]_vars

\* the tier colour of every tiers.color within the bounds
InitColor ==
    /\ InitCertificates /\ InitCatalog /\ InitReqs /\ InitMail /\ InitPrinted
    /\ batch = NoBatch /\ call \in ColorCalls /\ accounts = <<>>

NextColor == ColorReturn

SpecColor == InitColor /\ [][NextColor]_vars

LogoStartReq == \E k \in Conns : IssueStart(k, "create", 1, FALSE)

LogoRenderStep ==
    \E k \in Conns, logo \in Logos, fault \in {"none", "render"} : LogoRender(k, logo, fault)

\* single issuances whose renderer finds the logo in any condition
NextLogo ==
    LogoStartReq \/ IssueUuidStep \/ LogoRenderStep \/ IssueInsertStep \/ IssueEndStep

SpecLogo == Init /\ [][NextLogo]_vars

\* an admin issues one certificate and asks for the email
SentStartReq == \E k \in Conns : IssueStart(k, "create", 1, TRUE)

\* issuances served await by await, with resends and deletes between the awaits
NextSent ==
    \/ SentStartReq \/ IssueUuidStep \/ IssueRenderStep \/ IssueInsertStep
    \/ IssueDispatchStep \/ IssueUpdateStep \/ IssueEndStep \/ ResendReq \/ DeleteReq

SpecSent == Init /\ [][NextSent]_vars

\* an admin creates a template, as the default or not
DefaultPostReq ==
    \E k \in Conns, is_default \in {"undefined", "true"} :
        TemplatesPost(k, "Classic Gold", is_default)

\* an admin makes a template that has a row the default
DefaultPutReq ==
    \E k \in Conns, id \in 1..MaxTemplates :
        /\ id \in DOMAIN templates
        /\ TemplatesPut(k, id, "", "true")

\* the requests that set the default template, their statements interleaved,
\* and a reader of the list
NextDefault ==
    \/ DefaultPostReq \/ TemplatesPostStep \/ DefaultPutReq \/ TemplatesPutStep
    \/ TemplatesGet

SpecDefault == Init /\ [][NextDefault]_vars

RegisterReq == \E k \in Conns, email \in Emails : Register(k, email)

RegisterExistingUserStep == \E k \in Conns : RegisterExistingUser(k)

RegisterInsertStep == \E k \in Conns : RegisterInsert(k)

\* registrations on two connections, their awaits interleaved, and a reader
\* of signup-allowed
NextRegister ==
    RegisterReq \/ RegisterExistingUserStep \/ RegisterInsertStep \/ SignupAllowed

SpecRegister == Init /\ [][NextRegister]_vars

\* ================================================================ claims
\* the elements of certData processed so far
Processed == 1..(bulk.i - 1)

\* element k resolved its references and neither the renderer nor the INSERT threw
GoodItem(k) ==
    BadRefs(bulk.certData[k]) = {} /\ bulk.faults[k] \notin {"render", "insert"}

\* the position of good element k in results.certificates
Rank(k) == Cardinality({j \in 1..k : GoodItem(j)})

\* C1: a bulk request processes every element of certData exactly once, in
\* order; at every point of the loop and in the response success + failed is
\* the number of elements processed (N at the end), |certificates| = success,
\* |errors| = failed, success is the number of elements whose references
\* resolve and whose render and INSERT succeed, and each of those has its own
\* row in the table, whatever happened to the other elements.
C1_BulkAccounting ==
    bulk.pc \in {"loop", "done"} =>
        LET r == bulk.results
        IN  /\ bulk.i - 1 <= Len(bulk.certData)
            /\ bulk.pc = "done" => bulk.i - 1 = Len(bulk.certData)
            /\ Len(bulk.faults) = bulk.i - 1 /\ Len(bulk.calls) = bulk.i - 1
            /\ r.success + r.failed = bulk.i - 1
            /\ Len(r.certificates) = r.success
            /\ Len(r.errors) = r.failed
            /\ r.success = Cardinality({k \in Processed : GoodItem(k)})
            /\ \A k \in Processed : GoodItem(k) =>
                    LET id == r.certificates[Rank(k)].id
                    IN  /\ id \in DOMAIN certificates
                        /\ certificates[id].employee_id = bulk.certData[k].employee_id
                        /\ certificates[id].tier_id = bulk.certData[k].tier_id
                        /\ certificates[id].template_id = bulk.certData[k].template_id
                        /\ certificates[id].sent_by = bulk.user
                        /\ certificates[id].certificate_id \in files
            /\ \A j, k \in 1..Len(r.certificates) :
                    j # k => r.certificates[j].id # r.certificates[k].id

\* C1 witness: a finished batch of two whose first element names a tier that
\* does not exist and whose second element was issued: success = N-1, failed = 1.
C1_Witness ==
    /\ bulk.pc = "done"
    /\ Len(bulk.certData) = 2
    /\ BadRefs(bulk.certData[1]) = {"tier"}
    /\ bulk.results.success = 1 /\ bulk.results.failed = 1
    /\ bulk.results.certificates[1].id \in DOMAIN certificates

\* the references an error message identifies
ReferenceNamed(error) ==
    CASE error = "Employee not found" -> {"employee"}
      [] error = "Tier not found" -> {"tier"}
      [] error = "Template not found" -> {"template"}
      [] error = "Invalid employee, tier, or template reference"
            -> {"employee", "tier", "template"}
      [] OTHER -> {}

\* C2: in a bulk request, the error recorded for an element with exactly one
\* reference that does not resolve identifies that reference and no other.
C2_ErrorNamesBadReference ==
    bulk.pc \in {"loop", "done"} =>
        \A j \in 1..Len(bulk.results.errors) :
            LET entry == bulk.results.errors[j]
            IN  Cardinality(BadRefs(entry.cert)) = 1
                    => ReferenceNamed(entry.error) = BadRefs(entry.cert)

\* C3 as stated: in a bulk request with send_email, an element whose dispatch
\* failed has an entry with its data in results.errors.
C3_DispatchFailureRecorded ==
    bulk.pc \in {"loop", "done"} =>
        \A k \in Processed :
            bulk.faults[k] = "email" =>
                \E j \in 1..Len(bulk.results.errors) :
                    bulk.results.errors[j].cert = bulk.certData[k]

\* C3 amended: in a bulk request with send_email, an element whose dispatch
\* failed is caught without an entry in results.errors: it counts as a success,
\* is listed in results.certificates, its row stays with email_sent = 0 and
\* sent_at NULL, no UPDATE is made for it, and the loop goes on to the end.
C3_DispatchFailureSwallowed ==
    bulk.pc \in {"loop", "done"} =>
        /\ bulk.pc = "done" => bulk.i - 1 = Len(bulk.certData)
        /\ Len(bulk.results.errors)
                = Cardinality({k \in Processed : ~GoodItem(k)})
        /\ \A k \in Processed :
                bulk.faults[k] = "email" =>
                    /\ bulk.send_email
                    /\ GoodItem(k)
                    /\ bulk.calls[k] = <<"render", "insert", "dispatch">>
                    /\ LET id == bulk.results.certificates[Rank(k)].id
                       IN  /\ id \in DOMAIN certificates
                           /\ certificates[id].email_sent = 0
                           /\ certificates[id].sent_at = NULL

\* C3 witness: a finished batch of two whose first element's dispatch failed
\* and whose second element was issued and mailed.
C3_Witness ==
    /\ bulk.pc = "done"
    /\ Len(bulk.certData) = 2
    /\ bulk.faults = <<"email", "none">>
    /\ bulk.results.success = 2 /\ bulk.results.errors = <<>>
    /\ certificates[bulk.results.certificates[2].id].email_sent = 1
\* the collaborators a request invoked
Invoked(calls) == {calls[n] : n \in 1..Len(calls)}

\* the body of a reference in a request
Refs(e, t, tp) == [employee_id |-> e, tier_id |-> t, template_id |-> tp]

\* the bodies a single issue may carry
Bodies == [employee_id : RefIds, tier_id : RefIds, template_id : RefIds]

\* the 400 error of the first reference that does not resolve
FirstMissing(bad) ==
    IF "employee" \in bad THEN "Employee not found"
    ELSE IF "tier" \in bad THEN "Tier not found"
    ELSE "Template not found"

\* C4: a single issue that names an employee, tier or template that does not
\* exist is answered 400 with the error of the first missing reference
\* (employee, then tier, then template) and has no side effect: no collaborator
\* is invoked (renderer, INSERT, dispatcher), and the table, the id sequence
\* and the PDF files are as before. (No collaborator is reached, so the
\* environment has no fault to inject: fault is "none", as in CreateReq.)
C4_ValidationNoSideEffects ==
    [][\A c \in Bodies :
          BadRefs(c) # {} =>
          \A u \in DOMAIN users, send_email \in BOOLEAN :
            Create(u, c.employee_id, c.tier_id, c.template_id, send_email, "none") =>
                /\ resp'.op = "create" /\ resp'.status = 400
                /\ resp'.error = FirstMissing(BadRefs(c))
                /\ resp'.calls = <<>>
                /\ UNCHANGED <<certificates, nextId, files>>]_vars

\* C4 witness: a request naming an existing employee and a missing tier was
\* answered, after a certificate had been issued.
C4_Witness ==
    /\ resp.op = "create" /\ resp.status = 400 /\ resp.error = "Tier not found"
    /\ DOMAIN certificates # {}

\* C5: when the renderer throws, a single issue is answered 500 'Failed to
\* create certificate' with no row inserted and the dispatcher not invoked; in
\* a bulk request the element whose render throws gets no row, is counted as
\* failed and not as a success, and the dispatcher is not invoked for it.
C5_RenderFailureNoRow ==
    [][/\ \A u \in DOMAIN users, e \in RefIds, t \in RefIds, tp \in RefIds,
             send_email \in BOOLEAN :
            (BadRefs(Refs(e, t, tp)) = {} /\ Create(u, e, t, tp, send_email, "render")) =>
                /\ resp'.status = 500
                /\ resp'.error = "Failed to create certificate"
                /\ Invoked(resp'.calls) \cap {"insert", "dispatch", "update"} = {}
                /\ UNCHANGED <<certificates, nextId>>
       /\ (/\ bulk.pc = "loop" /\ bulk.i <= Len(bulk.certData)
           /\ BadRefs(bulk.certData[bulk.i]) = {}
           /\ BulkItem("render")) =>
                /\ UNCHANGED <<certificates, nextId>>
                /\ bulk'.results.failed = bulk.results.failed + 1
                /\ bulk'.results.success = bulk.results.success
                /\ bulk'.results.certificates = bulk.results.certificates
                /\ bulk'.results.errors[Len(bulk'.results.errors)].cert
                        = bulk.certData[bulk.i]
                /\ Invoked(bulk'.calls[bulk.i]) \cap {"insert", "dispatch", "update"} = {}
      ]_vars

\* C5 witness: a finished batch whose first element's render threw and whose
\* second element was issued: one row, one failure with the first element's
\* data, and the renderer the only collaborator invoked for it.
C5_Witness ==
    /\ bulk.pc = "done"
    /\ bulk.faults = <<"render", "none">>
    /\ bulk.calls[1] = <<"render">>
    /\ bulk.results.failed = 1 /\ bulk.results.success = 1
    /\ bulk.results.errors[1].cert = bulk.certData[1]
    /\ Cardinality(DOMAIN certificates) = 1

\* C6: a single issue with send_email whose dispatch fails is still answered
\* 201 with the certificate, and the row just inserted stays in the table with
\* email_sent = 0 and sent_at NULL.
C6_EmailFailureStillSuccess ==
    [][\A u \in DOMAIN users, e \in RefIds, t \in RefIds, tp \in RefIds :
            (BadRefs(Refs(e, t, tp)) = {} /\ Create(u, e, t, tp, TRUE, "email")) =>
                /\ resp'.status = 201 /\ resp'.error = ""
                /\ resp'.id \notin DOMAIN certificates
                /\ resp'.id \in DOMAIN certificates'
                /\ resp'.data = {certificates'[resp'.id]}
                /\ certificates'[resp'.id] = NewRow(certificates'[resp'.id].certificate_id,
                                                    e, t, tp, u)
                /\ certificates'[resp'.id].email_sent = 0
                /\ certificates'[resp'.id].sent_at = NULL
                /\ \A id \in DOMAIN certificates :
                        id \in DOMAIN certificates' /\ certificates'[id] = certificates[id]
      ]_vars

\* C6 witness: a 201 answer to a request whose dispatch was attempted and
\* not followed by the UPDATE; the row is there, not marked sent.
C6_Witness ==
    /\ resp.op = "create" /\ resp.status = 201
    /\ resp.calls = <<"render", "insert", "dispatch">>
    /\ resp.id \in DOMAIN certificates
    /\ certificates[resp.id].email_sent = 0

\* C7: a resend never inserts a row and never invokes the renderer: the set of
\* row ids, the id sequence and the PDF files are unchanged by it, and a
\* successful resend marks that same row sent (email_sent = 1, sent_at = now)
\* and changes nothing else of the table.
C7_ResendDoesNotDuplicate ==
    [][\A u \in DOMAIN users, id \in 1..MaxCerts, fault \in {"none", "email"} :
            Resend(u, id, fault) =>
                /\ DOMAIN certificates' = DOMAIN certificates
                /\ UNCHANGED <<nextId, files>>
                /\ "render" \notin Invoked(resp'.calls)
                /\ "insert" \notin Invoked(resp'.calls)
                /\ \A r \in DOMAIN certificates : r # id => certificates'[r] = certificates[r]
                /\ resp'.status = 200 =>
                        certificates'[id] = [certificates[id] EXCEPT
                                                !.email_sent = 1, !.sent_at = now]
      ]_vars

\* C7 witness: a successful resend of a row that had not been sent, with
\* another row in the table.
C7_Witness ==
    /\ resp.op = "resend" /\ resp.status = 200
    /\ resp.id \in DOMAIN certificates
    /\ certificates[resp.id].email_sent = 1
    /\ certificates[resp.id].sent_at = now
    /\ Cardinality(DOMAIN certificates) = 2
    /\ Cardinality(files) = 2

\* C8: a resend whose dispatch fails is answered with a failure (500) and
\* leaves the row's email_sent and sent_at as they were; a resend of an id
\* with no row is answered 404 and the dispatcher is not invoked.
C8_ResendFailureExplicit ==
    [][\A u \in DOMAIN users, id \in 1..MaxCerts :
        /\ (Resend(u, id, "email") /\ id \in DOMAIN certificates) =>
                /\ resp'.status = 500 /\ resp'.error = "Failed to send email"
                /\ certificates'[id].email_sent = certificates[id].email_sent
                /\ certificates'[id].sent_at = certificates[id].sent_at
        /\ \A fault \in {"none", "email"} :
            (Resend(u, id, fault) /\ id \notin DOMAIN certificates) =>
                /\ resp'.status = 404 /\ resp'.error = "Certificate not found"
                /\ resp'.calls = <<>>
                /\ UNCHANGED certificates
      ]_vars

\* C8 witness: a failed resend of a row sent earlier; the row still shows the
\* earlier send.
C8_Witness ==
    /\ resp.op = "resend" /\ resp.status = 500
    /\ resp.id \in DOMAIN certificates
    /\ certificates[resp.id].email_sent = 1
    /\ certificates[resp.id].sent_at < now

\* C9 as stated: once a row's sent_at is set, no operation changes it.
C9_SentAtWrittenOnce ==
    [][\A id \in DOMAIN certificates \cap DOMAIN certificates' :
            certificates[id].sent_at # NULL =>
                certificates'[id].sent_at = certificates[id].sent_at]_vars

\* C9 amended: a row is inserted once, under an id never used before, with
\* email_sent = 0 and sent_at NULL; the only update ever made to a row is the
\* one that sets email_sent = 1 and sent_at = now, made after each successful
\* dispatch (at issue and at every successful resend), so sent_at is the time
\* of the latest successful send; email_sent is never cleared and sent_at never
\* moves back.
C9_RowLifecycle ==
    [][/\ \A id \in DOMAIN certificates' \ DOMAIN certificates :
            /\ id = nextId /\ nextId' = nextId + 1
            /\ LET fresh == NewRow(certificates'[id].certificate_id,
                                   certificates'[id].employee_id,
                                   certificates'[id].tier_id,
                                   certificates'[id].template_id,
                                   certificates'[id].sent_by)
               IN  \/ certificates'[id] = fresh
                   \/ /\ certificates'[id] = [fresh EXCEPT !.email_sent = 1, !.sent_at = now]
                      /\ resp'.calls = <<"render", "insert", "dispatch", "update">>
       /\ \A id \in DOMAIN certificates \cap DOMAIN certificates' :
            \/ certificates'[id] = certificates[id]
            \/ /\ certificates'[id] = [certificates[id] EXCEPT
                                            !.email_sent = 1, !.sent_at = now]
               /\ resp'.op = "resend" /\ resp'.status = 200 /\ resp'.id = id
               /\ certificates[id].sent_at <= now
       /\ nextId' >= nextId
       /\ \A id \in DOMAIN certificates' : id < nextId'
      ]_vars

\* C9 witness: a row sent at a time later than the start, by a successful
\* resend.
C9_Witness ==
    /\ resp.op = "resend" /\ resp.status = 200
    /\ resp.id \in DOMAIN certificates
    /\ certificates[resp.id].sent_at = now
    /\ now > 1

\* the requester may delete the row: admin, or the row's sender
MayDelete(u, id) == users[u].role = "admin" \/ certificates[id].sent_by = u

\* C10: a delete removes the row, and only that row, when the requester is an
\* admin or the row's sender; from any other requester it is answered 403 with
\* the table unchanged; for an id with no row it is answered 404; and no step
\* other than such a delete removes a row. The PDF file stays.
C10_DeleteAuthorized ==
    [][/\ \A u \in DOMAIN users, id \in 1..MaxCerts :
            Delete(u, id) =>
                /\ UNCHANGED files
                /\ IF id \notin DOMAIN certificates
                   THEN resp'.status = 404 /\ UNCHANGED certificates
                   ELSE IF MayDelete(u, id)
                   THEN /\ resp'.status = 200
                        /\ certificates' = DeleteRow(certificates, id)
                   ELSE /\ resp'.status = 403
                        /\ resp'.error = "Not authorized to delete this certificate"
                        /\ UNCHANGED certificates
       /\ \A id \in DOMAIN certificates \ DOMAIN certificates' :
            \E u \in DOMAIN users : Delete(u, id) /\ MayDelete(u, id)
      ]_vars

\* C10 witness: a delete by a user who is neither admin nor the sender was
\* refused, and the row is still there.
C10_Witness ==
    /\ resp.op = "delete" /\ resp.status = 403
    /\ resp.id \in DOMAIN certificates
    /\ certificates[resp.id].sent_by = 1

\* the templates flagged default
Defaults == {r \in DOMAIN templates : templates[r].is_default # 0}

\* C11: when a request that sets template B as default completes (POST with
\* is_default answered 201, B the new row; PUT of B with is_default answered
\* 200), exactly one template is flagged default, and it is B.
C11_DefaultIsTheOneSet ==
    [][\A k \in Conns :
        /\ TemplatesPostInsert(k) => Defaults' = {resp'.id}
        /\ (TemplatesPutSet(k) /\ resp'.status = 200) => Defaults' = {reqs[k].id}
      ]_vars

\* C12: from the seeded state, whenever every templates request has
\* completed, exactly one template is flagged default.
C12_ExactlyOneDefault ==
    (\A k \in Conns : reqs[k].op = "idle") => Cardinality(Defaults) = 1

\* every certificate references a tier and a template that have a row
ReferencesResolve ==
    \A r \in DOMAIN certificates :
        /\ certificates[r].tier_id \in DOMAIN tiers
        /\ certificates[r].template_id \in DOMAIN templates

\* C13 as stated: a delete of a tier or template that a certificate references
\* is rejected and the row remains; a delete of a tier or template that has a
\* row and no certificate is not rejected.
C13_DeleteGuard ==
    [][\A k \in Conns :
        /\ \A id \in TemplateIds :
            (id \in DOMAIN templates /\ TemplatesDelete(k, id)) =>
                IF Referenced("template_id", id)
                THEN resp'.status = 400 /\ reqs'[k].op = "idle"
                ELSE reqs'[k].op = "templates.delete"
        /\ \A id \in RefIds :
            (id \in DOMAIN tiers /\ TiersDelete(k, id)) =>
                IF Referenced("tier_id", id)
                THEN resp'.status = 400 /\ reqs'[k].op = "idle"
                ELSE reqs'[k].op = "tiers.delete"
      ]_vars

\* C13 amended: a delete of a tier or template that a certificate references
\* is rejected (400 when the COUNT sees the certificate, 500 when the DELETE
\* statement meets it) and the row remains, so every certificate keeps its
\* tier and template; a delete of the default template is rejected with 400
\* also with no certificate; a delete of a tier, or of a template that is not
\* the default, with a row and no certificate when the COUNT and the DELETE
\* run, removes that row only and is answered 200.
C13_DeleteGuardExceptDefault ==
    [][/\ ReferencesResolve'
       /\ \A k \in Conns :
        /\ \A id \in TemplateIds :
            (id \in DOMAIN templates /\ TemplatesDelete(k, id)) =>
                /\ UNCHANGED templates
                /\ IF templates[id].is_default # 0
                   THEN /\ resp'.status = 400
                        /\ resp'.error = "Cannot delete default template"
                        /\ reqs'[k].op = "idle"
                   ELSE IF Referenced("template_id", id)
                   THEN /\ resp'.status = 400
                        /\ resp'.error =
                             "Cannot delete template that is being used by certificates"
                        /\ reqs'[k].op = "idle"
                   ELSE reqs'[k].op = "templates.delete" /\ reqs'[k].id = id
        /\ \A id \in RefIds :
            (id \in DOMAIN tiers /\ TiersDelete(k, id)) =>
                /\ UNCHANGED tiers
                /\ IF Referenced("tier_id", id)
                   THEN /\ resp'.status = 400
                        /\ resp'.error =
                             "Cannot delete tier that is being used by certificates"
                        /\ reqs'[k].op = "idle"
                   ELSE reqs'[k].op = "tiers.delete" /\ reqs'[k].id = id
        /\ TemplatesDeleteRun(k) =>
                IF Referenced("template_id", reqs[k].id)
                THEN resp'.status = 500 /\ UNCHANGED templates
                ELSE /\ resp'.status = 200
                     /\ templates' = DeleteRow(templates, reqs[k].id)
        /\ (TiersDeleteRun(k) /\ reqs[k].id \in DOMAIN tiers) =>
                IF Referenced("tier_id", reqs[k].id)
                THEN resp'.status = 500 /\ UNCHANGED tiers
                ELSE /\ resp'.status = 200
                     /\ tiers' = DeleteRow(tiers, reqs[k].id)
      ]_vars

\* C13 witness: the delete of a template that is not the default was refused
\* because a certificate uses it, and the row is still there.
C13_Witness ==
    /\ resp.op = "templates.delete" /\ resp.status = 400
    /\ resp.error = "Cannot delete template that is being used by certificates"
    /\ resp.id \in DOMAIN templates
    /\ templates[resp.id].is_default = 0
    /\ Referenced("template_id", resp.id)
\* literal replacement of every token of the text at once
RECURSIVE Simultaneous(_, _)
Simultaneous(text, replacements) ==
    IF text = <<>> THEN <<>>
    ELSE (IF Head(text) \in DOMAIN replacements
          THEN replacements[Head(text)] ELSE <<Head(text)>>)
             \o Simultaneous(Tail(text), replacements)

\* the orders in which the five tokens can be processed
Orders ==
    {o \in [1..Len(Tokens) -> DOMAIN Tokens] :
        \A a, b \in 1..Len(Tokens) : o[a] = o[b] => a = b}

\* C14: the subject and the body of a certificate email are their templates
\* with every occurrence of the five tokens replaced by its value, the same
\* in whatever order the tokens are processed, whatever the values hold
C14_SimultaneousSubstitution ==
    mail.via # "none" =>
        /\ mail.subject = Simultaneous(subjectTemplate(settings), mail.replacements)
        /\ mail.text = Unescape(Simultaneous(bodyTemplate(settings), mail.replacements))
        /\ \A o \in Orders :
               ReplaceEach(subjectTemplate(settings), [n \in 1..Len(Tokens) |-> Tokens[o[n]]],
                           mail.replacements) = mail.subject

\* the provider the claims name for the stored email_provider: resend and
\* mailgun for these two values, SMTP for every other one, unset and empty
\* included
Chosen ==
    IF "email_provider" \in DOMAIN settings /\ settings["email_provider"] = <<"resend">>
    THEN "resend"
    ELSE IF "email_provider" \in DOMAIN settings
            /\ settings["email_provider"] = <<"mailgun">>
    THEN "mailgun"
    ELSE "smtp"

\* the sender address of a provider: its stored name and address, or its
\* fallbacks
FromOf(provider) ==
    IF provider = "resend"
    THEN Or(settings, "resend_from_name", <<"HonorHub">>) \o <<" <">>
             \o Or(settings, "resend_from_email", <<"onboarding@resend.dev">>) \o <<">">>
    ELSE IF provider = "mailgun"
    THEN Or(settings, "mailgun_from_name", <<"HonorHub">>) \o <<" <">>
             \o Or(settings, "mailgun_from_email",
                    <<"noreply@">> \o Interpolated(settings, "mailgun_domain")) \o <<">">>
    ELSE Or(settings, "smtp_from_name", <<"HonorHub">>) \o <<" <">>
             \o Or(settings, "smtp_from_email", Interpolated(settings, "smtp_user"))
             \o <<">">>

\* C15: a send goes through exactly one provider, the one email_provider
\* selects (SMTP unless it is 'resend' or 'mailgun'), no other provider is
\* handed the message, and the sender address is the one of that provider
C15_OneProvider ==
    mail.via # "none" =>
        /\ mail.via = Chosen
        /\ mail.handed \in {<<>>, <<Chosen>>}
        /\ mail.from = FromOf(Chosen)

\* an unrecognized provider was stored and the message went out through SMTP
C15_Witness ==
    /\ "email_provider" \in DOMAIN settings
    /\ settings["email_provider"] = <<"sendgrid">>
    /\ mail.via = "smtp" /\ mail.handed = <<"smtp">> /\ mail.error = ""

\* the credentials the provider needs are not all stored
CredentialsAbsent(provider) ==
    IF provider = "resend" THEN ~Truthy(settings, "resend_api_key")
    ELSE IF provider = "mailgun"
    THEN ~Truthy(settings, "mailgun_api_key") \/ ~Truthy(settings, "mailgun_domain")
    ELSE ~Truthy(settings, "smtp_host") \/ ~Truthy(settings, "smtp_user")

ConfigurationError(provider) ==
    IF provider = "resend" THEN "Resend API key not configured"
    ELSE IF provider = "mailgun" THEN "Mailgun settings not configured"
    ELSE "SMTP settings not configured"

\* C16: with the credentials of the selected provider absent the send is
\* rejected with that provider's configuration error and nothing is handed to
\* any provider; a send makes at most one delivery attempt
C16_NoCredentialsNoDelivery ==
    mail.via # "none" =>
        /\ Len(mail.handed) <= 1
        /\ CredentialsAbsent(mail.via) =>
               /\ mail.handed = <<>>
               /\ mail.error = ConfigurationError(mail.via)

\* Mailgun is selected with an API key and no domain, and the send was
\* rejected before anything was handed over
C16_Witness ==
    /\ mail.via = "mailgun"
    /\ Truthy(settings, "mailgun_api_key") /\ ~Truthy(settings, "mailgun_domain")
    /\ mail.handed = <<>> /\ mail.error = "Mailgun settings not configured"

\* the first text of a sequence that is not blank, or blank
RECURSIVE FirstGiven(_)
FirstGiven(texts) ==
    IF texts = <<>> THEN <<>>
    ELSE IF Head(texts) # <<>> THEN Head(texts) ELSE FirstGiven(Tail(texts))

\* C17 as stated: name and title are each the first given of the override,
\* the sender's personal field and the global setting, and blank otherwise
C17_SignatureOrder ==
    [][\A user \in Senders :
          generateCertificatePDF(user) =>
              /\ printed'.sigName = FirstGiven(<<printed'.signatureName,
                                                 user.signature_name,
                                                 settings["global_signature_name"]>>)
              /\ printed'.sigTitle = FirstGiven(<<printed'.signatureTitle,
                                                  user.signature_title,
                                                  settings["global_signature_title"]>>)]_vars

\* C17: the title is the first given of the override, the sender's personal
\* title and the global title, and blank otherwise; the name is the first
\* given of the override, the sender's personal name, the global name and the
\* sender's account name, each field on its own
C17_SignatureOrderThenAccountName ==
    [][\A user \in Senders :
          generateCertificatePDF(user) =>
              /\ printed'.sigName = FirstGiven(<<printed'.signatureName,
                                                 user.signature_name,
                                                 settings["global_signature_name"],
                                                 user.name>>)
              /\ printed'.sigTitle = FirstGiven(<<printed'.signatureTitle,
                                                  user.signature_title,
                                                  settings["global_signature_title"]>>)
              /\ printed'.signatureName \in {<<>>, user.signature_name,
                                              settings["global_signature_name"]}
              /\ printed'.signatureTitle \in {<<>>, user.signature_title,
                                               settings["global_signature_title"]}]_vars

\* a sender without a personal signature name, no global name stored, a
\* personal title: the account name and the personal title are drawn
C17_Witness ==
    /\ printed # NoSignature
    /\ printed.sender.signature_name = <<>>
    /\ settings["global_signature_name"] = <<>>
    /\ printed.signatureName = <<>>
    /\ printed.sigName = printed.sender.name
    /\ printed.sender.signature_title # <<>>
    /\ printed.sigTitle = printed.sender.signature_title

\* the sum of the count fields of a sequence of entries
RECURSIVE SumCounts(_)
SumCounts(entries) ==
    IF entries = <<>> THEN 0 ELSE Head(entries).count + SumCounts(Tail(entries))

\* C18: the overview returned has one entry per tier, tiers without
\* certificates included, in rank order, each with the number of certificate
\* rows of its tier, and the counts add up to the totalCertificates returned
C18_StatsPerTier ==
    [][\A k \in Conns :
          StatsOverviewRespond(k) =>
              LET entries == resp'.data.certificatesByTier
              IN  /\ Len(entries) = Cardinality(DOMAIN tiers)
                  /\ \A r \in DOMAIN tiers :
                         \E n \in 1..Len(entries) :
                             /\ entries[n].name = tiers[r].name
                             /\ entries[n].count =
                                    Cardinality({c \in DOMAIN certificates :
                                                    certificates[c].tier_id = r})
                             /\ \A q \in DOMAIN tiers :
                                    tiers[q].rank < tiers[r].rank =>
                                        \E m \in 1..(n - 1) : entries[m].name = tiers[q].name
                  /\ SumCounts(entries) = resp'.data.totalCertificates]_vars

\* C19: every row carries the path /uploads/certificates/{certificate_id}.pdf
\* of its own certificate id, no two rows carry the same certificate id, and
\* the renderer never writes a file that exists or that another request in
\* flight is about to write, however single and bulk issuances interleave
C19_OnePdfPerCertificate ==
    [][/\ \A r \in DOMAIN certificates' :
              /\ certificates'[r].pdf_path = PdfPath(certificates'[r].certificate_id)
              /\ \A q \in DOMAIN certificates' \ {r} :
                     certificates'[q].certificate_id # certificates'[r].certificate_id
       /\ \A k \in Conns :
              IssueRender(k, "none") =>
                  /\ reqs[k].certificateId \notin files
                  /\ \A j \in Conns \ {k} :
                         reqs[j].op = "issue" =>
                             reqs[j].certificateId # reqs[k].certificateId]_vars

\* two issuances, one of them a bulk, have both rendered and both rows are
\* about to be inserted
C19_Witness ==
    /\ \A k \in Conns : reqs[k].op = "issue" /\ reqs[k].pc = "insert"
    /\ \E k \in Conns : reqs[k].route = "bulk"
    /\ \E k \in Conns : reqs[k].route = "create"
    /\ {reqs[k].certificateId : k \in Conns} \subseteq files
    /\ Cardinality({reqs[k].certificateId : k \in Conns}) = Cardinality(Conns)

Active == {i \in DOMAIN batch.items : batch.items[i].pc \notin {"todo", "done"}}

\* the row ids of the first n elements that were created, in input order
RECURSIVE CreatedIds(_)
CreatedIds(n) ==
    IF n = 0 THEN <<>>
    ELSE IF batch.items[n].pc = "done" /\ batch.items[n].id # 0
    THEN Append(CreatedIds(n - 1), batch.items[n].id)
    ELSE CreatedIds(n - 1)

\* C21: within a bulk request the pass over an element begins only when the
\* passes over all earlier elements are over, so at most one lookup, render,
\* insert, dispatch or update of the batch is in flight, and the certificates
\* of the result are the created ones in input order
C21_Sequential ==
    /\ Cardinality(Active) <= 1
    /\ \A i \in DOMAIN batch.items :
           batch.items[i].pc # "todo" =>
               \A j \in 1..(i - 1) : batch.items[j].pc = "done"
    /\ [n \in 1..Len(batch.results.certificates) |-> batch.results.certificates[n].id]
           = CreatedIds(Len(batch.items))

\* the first element was created and mailed, the second is at its dispatch
C21_Witness ==
    /\ Len(batch.items) >= 2
    /\ batch.items[1].pc = "done" /\ batch.items[1].id # 0
    /\ certificates[batch.items[1].id].email_sent = 1
    /\ batch.items[2].pc = "dispatch"
    /\ Len(batch.results.certificates) = 1

\* C22: every dispatch of a batch uses the settings as they are stored when
\* it is called: the provider and its sender address, the credentials and the
\* subject template of that moment, whatever they were at earlier dispatches
C22_SettingsReadAfresh ==
    [][\A i \in 1..MaxBulk, fault \in {"none", "send"} :
          ItemDispatch(i, fault) =>
              /\ mail'.via = Chosen
              /\ mail'.from = FromOf(Chosen)
              /\ mail'.subject =
                     ReplaceEach(subjectTemplate(settings), Tokens, mail'.replacements)
              /\ IF CredentialsAbsent(Chosen)
                 THEN mail'.handed = <<>> /\ mail'.error = ConfigurationError(Chosen)
                 ELSE mail'.handed = <<Chosen>>]_vars

\* the first element of a batch was not mailed, the second was, with the
\* credentials and the subject template stored since the process started
C22_Witness ==
    /\ Len(batch.items) >= 2 /\ batch.send_email
    /\ batch.items[1].pc = "done" /\ batch.items[1].id # 0
    /\ certificates[batch.items[1].id].email_sent = 0
    /\ batch.items[2].pc = "update"
    /\ mail.handed = <<"smtp">> /\ mail.error = ""
    /\ mail.subject = <<"Well done ", "Jane Doe">>

\* C23 as stated: the signature drawn on the PDF of every element of a batch
\* is resolved from the settings as they are stored when the element is
\* rendered
C23_SignaturePerItem ==
    [][\A i \in 1..MaxBulk :
          ItemRender(i, "none") =>
              /\ printed'.sigName = sigName(signatureName(BatchUser), BatchUser)
              /\ printed'.sigTitle = sigTitle(signatureTitle(BatchUser), BatchUser)]_vars

\* the words of a text: the pieces between its spaces that are not empty
Words(text) == SelectSeq(split(text), LAMBDA w : w # <<>>)

\* the words of the lines, line after line
RECURSIVE WordsOfLines(_)
WordsOfLines(lines) ==
    IF lines = <<>> THEN <<>> ELSE Words(Head(lines)) \o WordsOfLines(Tail(lines))

\* lines.join(' ')
RECURSIVE join(_)
join(lines) ==
    IF lines = <<>> THEN <<>>
    ELSE IF Len(lines) = 1 THEN Head(lines)
    ELSE Head(lines) \o <<" ">> \o join(Tail(lines))

\* a call of wrapText has returned
Wrapped == call.fn = "wrapText" /\ call.done

\* C24: a line returned by wrapText is never wider than maxWidth unless it is
\* one single word that is wider than maxWidth by itself, and no word is split
\* across lines: the words of the lines are whole words of the text
C24_LinesFit ==
    Wrapped =>
        /\ \A n \in DOMAIN call.lines :
               \/ widthOfTextAtSize(call.lines[n]) <= call.maxWidth
               \/ /\ Words(call.lines[n]) = <<call.lines[n]>>
                  /\ widthOfTextAtSize(call.lines[n]) > call.maxWidth
        /\ WordsOfLines(call.lines) = Words(call.text)

\* a text was wrapped into several lines, one of them a single word too wide
C24_Witness ==
    /\ Wrapped /\ Len(call.lines) >= 2
    /\ \E n \in DOMAIN call.lines : widthOfTextAtSize(call.lines[n]) > call.maxWidth
    /\ \E n \in DOMAIN call.lines : Len(Words(call.lines[n])) >= 2

\* C25: joining the lines returned by wrapText with single spaces and splitting
\* the result into words gives the words of the text, in their order, also
\* when the text has leading, trailing or consecutive spaces
C25_WordsKept == Wrapped => Words(join(call.lines)) = Words(call.text)

\* a text with consecutive spaces was wrapped into several lines
C25_Witness ==
    /\ Wrapped /\ Len(call.lines) >= 2
    /\ \E n \in 1..(Len(call.text) - 1) : call.text[n] = " " /\ call.text[n + 1] = " "

\* the tier colour of a tiers.color has been resolved
Coloured == call.fn = "parseColor" /\ call.done

\* the colour of the digits RRGGBB, in 255ths
Rgb(digits) ==
    <<16 * HexDigit[digits[1]] + HexDigit[digits[2]],
      16 * HexDigit[digits[3]] + HexDigit[digits[4]],
      16 * HexDigit[digits[5]] + HexDigit[digits[6]]>>

\* six hexadecimal digits
SixDigits(digits) == Len(digits) = 6 /\ \A n \in 1..6 : digits[n] \in DOMAIN HexDigit

\* a string of the form #RRGGBB
HashForm(color) == color # null /\ Len(color) = 7 /\ Head(color) = "#" /\ SixDigits(Tail(color))

\* C26: a tiers.color of the form #RRGGBB gives (RR/255, GG/255, BB/255); the
\* empty string, null and every string that is not of the form #RRGGBB give
\* the cyan brand colour
C26_TierColour ==
    Coloured =>
        call.tierColor = IF HashForm(call.color) THEN Rgb(Tail(call.color)) ELSE BRAND_cyan

\* C26, amended: the hash is optional; six hexadecimal digits with or without
\* it give (RR/255, GG/255, BB/255), everything else gives the cyan brand colour
C26_TierColourHashOptional ==
    Coloured =>
        call.tierColor =
            IF HashForm(call.color) THEN Rgb(Tail(call.color))
            ELSE IF call.color # null /\ SixDigits(call.color) THEN Rgb(call.color)
            ELSE BRAND_cyan

\* six digits without the hash were drawn in their own colour
C26_Witness ==
    /\ Coloured /\ call.color # null /\ SixDigits(call.color)
    /\ call.tierColor = Rgb(call.color) /\ call.tierColor # BRAND_cyan

\* the renderer was called last with a logo configured that cannot be drawn,
\* and nothing else went wrong
LogoUnusable ==
    /\ call.fn = "generateCertificatePDF" /\ call.fault = "none"
    /\ call.logo.companyLogoPath # ""
    /\ \/ ~call.logo.exists \/ ~call.logo.readable \/ ~call.logo.decodable
       \/ call.logo.companyLogoPath = "/uploads/logos/logo.gif"

\* C27: a configured logo that is missing, unreadable, undecodable or of an
\* unsupported type never makes the renderer fail: it goes on without the logo,
\* writes the PDF and returns its path
C27_LogoNeverFails ==
    LogoUnusable =>
        /\ ~call.threw /\ ~call.logoEmbedded
        /\ call.certificateId \in files
        /\ call.returned = PdfPath(call.certificateId)

\* the row of a certificate rendered with an undecodable logo was created
C27_Witness ==
    /\ LogoUnusable /\ call.logo.exists /\ call.logo.readable /\ ~call.logo.decodable
    /\ call.logo.companyLogoPath = "/uploads/logos/logo.png"
    /\ \E r \in DOMAIN certificates :
           /\ certificates[r].certificate_id = call.certificateId
           /\ certificates[r].pdf_path = call.returned

\* the row is marked sent
Sent(row) == row.email_sent = 1

\* C28: in every state, every row has email_sent set exactly when sent_at is
\* not NULL; a row becomes marked sent only by the UPDATE that follows a
\* dispatch that succeeded for that certificate, at its creation or at a
\* resend; and a row marked sent is never unmarked
C28_SentExactlyWhenDelivered ==
    /\ [](\A id \in DOMAIN certificates :
              Sent(certificates[id]) <=> certificates[id].sent_at # NULL)
    /\ [][/\ \A id \in DOMAIN certificates' :
                (/\ Sent(certificates'[id])
                 /\ id \in DOMAIN certificates => ~Sent(certificates[id])) =>
                    \/ \E k \in Conns :
                           /\ IssueUpdate(k) /\ reqs[k].id = id /\ reqs[k].delivered
                    \/ \E u \in DOMAIN users : Resend(u, id, "none")
          /\ \A id \in DOMAIN certificates \cap DOMAIN certificates' :
                Sent(certificates[id]) =>
                    /\ Sent(certificates'[id])
                    /\ certificates'[id].sent_at # NULL
         ]_vars

\* two rows are marked sent, and the request served last is a resend that
\* succeeded for one of them
C28_Witness ==
    /\ resp.op = "resend" /\ resp.status = 200
    /\ \A id \in 1..2 : id \in DOMAIN certificates /\ Sent(certificates[id])
    /\ \E id \in 1..2 : resp.id = id

\* C29: with requests that set the default, for different templates, served
\* at the same time, the clearing and the setting statements interleaved in
\* any order, every state a reader can see, the final one included, has
\* exactly one template flagged default: never two, never none
C29_OneDefaultAtEveryInstant ==
    /\ Cardinality(Defaults) = 1
    /\ resp.op = "templates.get" =>
           Cardinality({row \in resp.data : row.is_default # 0}) = 1

\* C30: POST /auth/register creates a user only when the users table is
\* empty, so at most one user is ever created through registration, also when
\* two registrations with different emails are served at the same time
C30_OneRegisteredUser ==
    /\ [](Cardinality(DOMAIN accounts) <= 1)
    /\ [][accounts' # accounts => accounts = <<>>]_vars

====
